---- MODULE Spec2Model ----
(***************************************************************************)
(* Model of ana-opening-book: the Analyzer visitor and its upserts into    *)
(* the shared occurance_map, the chunker split_chunks and the metadata     *)
(* scan get_metadata.  The tree holds three revisions of analyze.cpp; the  *)
(* variable revision selects the one a behaviour runs.                     *)
(***************************************************************************)
EXTENDS Integers, Sequences, FiniteSets, Bags, TLC

\* ------------------------------------------------------------------ bounds
\* games the tokenizer hands out in one run, over all files and workers
MaxGames == 2
\* files handed to split_chunks, and the largest target_chunks tried
MaxPgns == 4
MaxTarget == 4
\* files handed to get_metadata
MaxFileList == 3
\* records in the file get_fixfen reads
MaxRecords == 3
\* the largest counter of the Statistics values operator< is tried on
MaxCount == 2
\* pgn files handed to the worker pool
MaxPoolFiles == 5

\* ---------------------------------------------------------------- revisions
RevFixFen == "src/src/analyze.cpp"
RevConclusive == "src/unnamed/part_001"
RevInitial == "src/analyze.cpp"
Revisions == {RevFixFen, RevConclusive, RevInitial}

\* the worker threads of the pool
Workers == {"w1", "w2"}

\* enum class Result
WIN == "W"
DRAW == "D"
LOSS == "L"
UNKNOWN == "U"

\* position strings are sequences of their space-separated fields
STARTPOS == <<"rnbqkbnr/pppppppp/8/8/8/8/PPPPPPPP/RNBQKBNR", "w", "KQkq", "-", "0", "1">>
FenA == <<"A", "w", "-", "-", "0", "1">>
FenB == <<"B", "b", "-", "-", "5", "9">>
NoFen == <<>>

\* what the tokenizer can deliver as header(key, value)
ResultValues == {"1-0", "0-1", "1/2-1/2", "*"}
FenValues == {FenA, FenB}
TerminationValues == {"time forfeit", "abandoned", "stalled connection",
                      "illegal move", "unterminated", "normal"}
Headers == ({"Result"} \X ResultValues) \cup ({"FEN"} \X FenValues)
              \cup ({"Termination"} \X TerminationValues)

\* the correction tables a run can be configured with (options.fixfens)
NoFixFens == <<>>
FixFenTables == {NoFixFens, (<<"A", "w", "-", "-">> :> <<3, 7>>)}

VARIABLES
    revision,       \* which revision of analyze.cpp runs
    fixfens,        \* options.fixfens
    occurance_map,  \* position key -> Statistics
    mutex,          \* the submap mutexes of occurance_map
    total_games,    \* std::atomic total_games
    analyzer,       \* per worker: its Analyzer and its place in the record
    games_left,     \* game records not yet started
    exited,         \* std::exit(1) was called
    events,         \* history: bag of <<key, result>> of the upserts done
    ended,          \* the process that called std::exit(1) is gone
    report          \* what write_results has written

aggVars == <<fixfens, occurance_map, mutex, total_games, analyzer,
             games_left, exited, events, ended, report>>

VARIABLES
    pgns,           \* split_chunks: the file list
    target_chunks,  \* split_chunks: the number of chunks aimed at
    begin,          \* split_chunks: files before the iterator begin
    chunks,         \* split_chunks: the groups pushed so far
    split_pc        \* split_chunks: "loop" or "returned"

chunkVars == <<pgns, target_chunks, begin, chunks, split_pc>>

VARIABLES
    file_list,         \* get_metadata: the files to scan
    allow_duplicates,  \* get_metadata: options.allow_duplicates
    json_files,        \* the sidecar files on disk: stem -> parsed content
    scanned,           \* get_metadata: files the loop is done with
    test_map,          \* get_metadata: test id -> first stem seen
    test_warned,       \* get_metadata: stems a conflict was raised for
    meta_map,          \* get_metadata: stem -> TestMetaData
    meta_pc,           \* get_metadata: "scan", "returned" or "exit"
    raised,            \* history: <<file index, stem>> of the conflicts raised, in order
    loads              \* history: bag of the stems a sidecar was parsed for

metaVars == <<file_list, allow_duplicates, json_files, scanned, test_map, test_warned,
              meta_map, meta_pc, raised, loads>>

VARIABLES
    files_pgn,          \* process: the file list the filters work on
    filter_meta,        \* process: the meta_map handed to the filters
    match_book,         \* options.match_book
    matchBookInverted,  \* options.matchBookInverted
    only_sprt,          \* options.only_sprt
    files_chunked,      \* process: the chunks handed to the worker pool
    filter_pc,          \* process: "book", "sprt", "split" or "enqueued"
    files_found         \* history: the file list before any filter

filterVars == <<files_pgn, filter_meta, match_book, matchBookInverted, only_sprt,
                files_chunked, filter_pc, files_found>>

VARIABLES
    lines,        \* get_fixfen: the records of the file, each a sequence of fields
    line_no,      \* get_fixfen: records read so far
    fixfen_map,   \* get_fixfen: the table under construction
    game_fen,     \* fixFen: the position string it is called with
    fixed_value,  \* fixFen: what it returned
    fixfen_pc     \* "scan", "returned", "fixed" or "exit"

fixfenVars == <<lines, line_no, fixfen_map, game_fen, fixed_value, fixfen_pc>>

VARIABLES
    stats_a,      \* three Statistics values
    stats_b,
    stats_c,
    compared,     \* the results of operator< on them
    sorted_rows,  \* the three of them after std::sort
    cmp_pc        \* "compare" or "compared"

cmpVars == <<stats_a, stats_b, stats_c, compared, sorted_rows, cmp_pc>>

VARIABLES
    options_concurrency,  \* options.concurrency
    file_system,          \* the content of every pgn file: games and parse errors
    tasks,                \* files_chunked, one task of the pool per chunk
    queue,                \* the pool's tasks not yet started
    task_of,              \* per worker: its task, and its file and record in it
    total_chunks,         \* std::atomic total_chunks
    started,              \* history: the bag of <<task, worker>>, one per task started
    finished              \* history: the bag of <<task, worker>>, one per task returned

poolVars == <<options_concurrency, file_system, tasks, queue, task_of, total_chunks,
              started, finished>>

VARIABLES
    pgn_record,     \* the headers of one game record, in the order of the file
    next_header,    \* the tokenizer's place in them
    visitor         \* the Analyzer the tokenizer calls for this record

recordVars == <<pgn_record, next_header, visitor>>

VARIABLES
    argv,           \* main: the command line arguments after the program name
    main_pc,        \* main: "args", "get_metadata", "pool", "returned" or "exited"
    exit_status     \* <<>> while the process runs, then <<its exit status>>

mainVars == <<argv, main_pc, exit_status>>

vars == <<revision, aggVars, chunkVars, metaVars, filterVars, fixfenVars, cmpVars, poolVars,
          recordVars, mainVars>>

\* ------------------------------------------------------------ Statistics
Statistics(w, d, l) == [wins |-> w, draws |-> d, losses |-> l]
NoStatistics == Statistics(0, 0, 0)
total(s) == s.wins + s.draws + s.losses
Bool(b) == IF b THEN 1 ELSE 0

HasStartMoves(rev) == rev = RevFixFen
HasTotalGames(rev) == rev # RevInitial

\* std::to_string(int)
Digit(d) == CASE d = 0 -> "0" [] d = 1 -> "1" [] d = 2 -> "2" [] d = 3 -> "3"
              [] d = 4 -> "4" [] d = 5 -> "5" [] d = 6 -> "6" [] d = 7 -> "7"
              [] d = 8 -> "8" [] d = 9 -> "9"
RECURSIVE to_string(_)
to_string(n) ==
    IF n < 0 THEN "-" \o to_string(-n)
    ELSE IF n < 10 THEN Digit(n)
    ELSE to_string(n \div 10) \o Digit(n % 10)

\* std::regex "^(.+) 0 1$" on the fields of a position string
SentinelMatch(value_str) ==
    /\ Len(value_str) >= 3
    /\ value_str[Len(value_str) - 1] = "0"
    /\ value_str[Len(value_str)] = "1"

ExitKey == <<"std::exit(1)">>

\* mutant: the test for an empty table is left out
fixFenAnyTable(fen_view) ==
    IF SentinelMatch(fen_view)
    THEN LET fen == SubSeq(fen_view, 1, Len(fen_view) - 2)
         IN IF fen \notin DOMAIN fixfens
            THEN ExitKey
            ELSE fen \o <<to_string(fixfens[fen][1]), to_string(fixfens[fen][2])>>
    ELSE fen_view

\* mutant: the two counters are put back in the wrong order
fixFenSwapped(fen_view) ==
    IF DOMAIN fixfens # {} /\ SentinelMatch(fen_view)
    THEN LET fen == SubSeq(fen_view, 1, Len(fen_view) - 2)
         IN IF fen \notin DOMAIN fixfens
            THEN ExitKey
            ELSE fen \o <<to_string(fixfens[fen][2]), to_string(fixfens[fen][1])>>
    ELSE fen_view

\* Analyzer::fixFen; ExitKey stands for the std::exit(1) branch
fixFen(fen_view) ==
    IF DOMAIN fixfens # {} /\ SentinelMatch(fen_view)
    THEN LET fen == SubSeq(fen_view, 1, Len(fen_view) - 2)
         IN IF fen \notin DOMAIN fixfens
            THEN ExitKey
            ELSE fen \o <<to_string(fixfens[fen][1]), to_string(fixfens[fen][2])>>
    ELSE fen_view

\* the submap a key hashes to: A and the start position collide, B does not
Shard(key) == IF key # <<>> /\ key[1] = "B" THEN "s1" ELSE "s0"
Shards == {"s0", "s1"}

\* mutant: the map's Mutex parameter left at phmap's NullMutex
NullMutex(m, s) == TRUE

\* std::mutex of map_t: try to take the submap lock
LockFree(m, s) == ~m[s]

\* mutant: the first lambda stores the current outcome over the entry
OverwriteExisting(v, result) ==
    [wins |-> IF result = WIN THEN 1 ELSE 0, draws |-> IF result = DRAW THEN 1 ELSE 0,
     losses |-> IF result = LOSS THEN 1 ELSE 0]

\* first lambda of lazy_emplace_l: the key exists
IncrementExisting(v, result) ==
    IF result = WIN THEN [v EXCEPT !.wins = @ + 1]
    ELSE IF result = DRAW THEN [v EXCEPT !.draws = @ + 1]
    ELSE IF result = LOSS THEN [v EXCEPT !.losses = @ + 1]
    ELSE v

\* second lambda of lazy_emplace_l: the key is constructed
ConstructNew(result) ==
    Statistics(Bool(result = WIN), Bool(result = DRAW), Bool(result = LOSS))

\* the table with key bound to v
Put(m, key, v) == [k \in DOMAIN m \cup {key} |-> IF k = key THEN v ELSE m[k]]

\* lazy_emplace_l as one call on a table value
Upsert(m, key, result) ==
    IF key \in DOMAIN m
    THEN Put(m, key, IncrementExisting(m[key], result))
    ELSE Put(m, key, ConstructNew(result))

\* ---------------------------------------------------------------- Analyzer
NoSeen == [Result |-> "none", FEN |-> FALSE, Termination |-> "none"]

FreshAnalyzer ==
    [pc |-> "idle", result |-> UNKNOWN, fen |-> NoFen, valid_game |-> TRUE,
     skip |-> FALSE, key |-> <<>>, found |-> FALSE, old |-> NoStatistics,
     seen |-> NoSeen, acted |-> FALSE]

DisqualifyingTerminations ==
    {"time forfeit", "abandoned", "stalled connection", "illegal move", "unterminated"}

\* the tokenizer's note of the headers it has delivered for the current record
NotSeen(seen, key) ==
    CASE key = "Result" -> seen.Result = "none"
      [] key = "FEN" -> ~seen.FEN
      [] key = "Termination" -> seen.Termination = "none"
Note(seen, key, value) ==
    CASE key = "Result" -> [seen EXCEPT !.Result = value]
      [] key = "FEN" -> [seen EXCEPT !.FEN = TRUE]
      [] key = "Termination" ->
           [seen EXCEPT !.Termination =
               IF value \in DisqualifyingTerminations THEN "disq" ELSE "other"]

\* Analyzer::startPgn
startPgn(a) ==
    IF HasStartMoves(revision)
    THEN [a EXCEPT !.result = UNKNOWN, !.fen = STARTPOS, !.valid_game = TRUE]
    ELSE [a EXCEPT !.result = UNKNOWN]

\* the Result branch of Analyzer::header, the same in the three revisions
headerResult(a, value) ==
    IF value = "1-0" THEN [a EXCEPT !.result = WIN]
    ELSE IF value = "0-1" THEN [a EXCEPT !.result = LOSS]
    ELSE IF value = "1/2-1/2" THEN [a EXCEPT !.result = DRAW]
    ELSE a

\* the Termination branch of Analyzer::header
headerTermination(a, value) ==
    IF \/ value = "time forfeit" \/ value = "abandoned" \/ value = "stalled connection"
       \/ value = "illegal move" \/ value = "unterminated"
    THEN [a EXCEPT !.valid_game = FALSE]
    ELSE a

\* Analyzer::header of src/src/analyze.cpp
headerFixFen(a, key, value) ==
    IF key = "Result" THEN headerResult(a, value)
    ELSE IF key = "FEN" THEN [a EXCEPT !.fen = value]
    ELSE IF key = "Termination" THEN headerTermination(a, value)
    ELSE a

\* Analyzer::header of part_001: a FEN header upserts when the result is known
headerConclusive(a, key, value) ==
    LET a1 == IF key = "Result" THEN headerResult(a, value) ELSE a
    IN IF key = "FEN"
       THEN IF a1.result # UNKNOWN
            THEN [a1 EXCEPT !.pc = "emplace", !.key = value]
            ELSE [a1 EXCEPT !.skip = TRUE]
       ELSE a1

\* Analyzer::header of src/analyze.cpp: a FEN header always upserts
headerInitial(a, key, value) ==
    LET a1 == IF key = "Result" THEN headerResult(a, value) ELSE a
    IN IF key = "FEN"
       THEN [a1 EXCEPT !.pc = "emplace", !.key = value]
       ELSE a1

header(a, key, value) ==
    IF revision = RevFixFen THEN headerFixFen(a, key, value)
    ELSE IF revision = RevConclusive THEN headerConclusive(a, key, value)
    ELSE headerInitial(a, key, value)

\* Analyzer::startMoves; pc "exit" stands for std::exit(1) inside fixFen
startMoves(a) ==
    IF HasStartMoves(revision)
    THEN LET a1 == [a EXCEPT !.skip = TRUE]
         IN IF a1.result = UNKNOWN \/ ~a1.valid_game
            THEN [a1 EXCEPT !.pc = "moves"]
            ELSE LET fixed_fen == fixFen(a1.fen)
                 IN IF fixed_fen = ExitKey
                    THEN [a1 EXCEPT !.pc = "exit"]
                    ELSE [a1 EXCEPT !.pc = "emplace", !.key = fixed_fen]
    ELSE [a EXCEPT !.pc = "moves"]

\* ------------------------------------------------------------ split_chunks
PgnNames == {"a", "b"}
Min(a, b) == IF a < b THEN a ELSE b

\* mutant: the chunk size rounded down and one added
ChunksSizePlusOne(n, target) == n \div target + 1

\* mutant: one file per group, whatever the target
ChunksSizeOne(n, target) == 1

\* const int chunks_size = (pgns.size() + target_chunks - 1) / target_chunks
ChunksSize(n, target) == (n + target - 1) \div target

\* mutant: the group ends one file early
SliceShort(list, first, next) == SubSeq(list, first + 1, next - 1)

\* std::vector<std::string>(begin, next): the files from begin up to next
Slice(list, first, next) == SubSeq(list, first + 1, next)

IdleChunks ==
    /\ pgns = <<>>
    /\ target_chunks = 1
    /\ begin = 0
    /\ chunks = <<>>
    /\ split_pc = "idle"

InitChunks ==
    /\ pgns \in UNION {[1..n -> PgnNames] : n \in 0..MaxPgns}
    /\ target_chunks \in 1..MaxTarget
    /\ begin = 0
    /\ chunks = <<>>
    /\ split_pc = "loop"

\* one turn of while (begin != end)
SplitLoop ==
    /\ split_pc = "loop"
    /\ begin # Len(pgns)
    /\ LET chunks_size == ChunksSize(Len(pgns), target_chunks)
           next == begin + Min(chunks_size, Len(pgns) - begin)
       IN /\ chunks' = Append(chunks, Slice(pgns, begin, next))
          /\ begin' = next
    /\ UNCHANGED <<pgns, target_chunks, split_pc>>

\* return chunks
SplitReturn ==
    /\ split_pc = "loop"
    /\ begin = Len(pgns)
    /\ split_pc' = "returned"
    /\ UNCHANGED <<pgns, target_chunks, begin, chunks>>

\* ------------------------------------------------------------ get_metadata
\* path names are sequences of characters
PathDT0 == <<"d", "/", "t", "-", "0", ".", "p", "g", "n">>
PathDT1 == <<"d", "/", "t", "-", "1", ".", "p", "g", "n">>
PathET0 == <<"e", "/", "t", "-", "0", ".", "p", "g", "n">>
PathET1 == <<"e", "/", "t", "-", "1", ".", "p", "g", "n">>
PathFT0 == <<"f", "/", "t", "-", "0", ".", "p", "g", "n">>
PathDU == <<"d", "/", "u", ".", "p", "g", "n">>
Paths == {PathDT0, PathDT1, PathET0, PathET1, PathFT0, PathDU}

StemDT == <<"d", "/", "t">>
StemET == <<"e", "/", "t">>

\* TestMetaData as from_json leaves it; "nullopt" stands for an empty optional,
\* "true" and "false" for the values of std::optional<bool>
TestMetaData(book, sprt) == [book |-> book, sprt |-> sprt]

\* the sidecar files a directory tree can hold, by stem (stem + ".json")
FileSystems ==
    { <<>>,
      (StemDT :> TestMetaData("book1", "nullopt")),
      (StemET :> TestMetaData("book2", "true")),
      (StemDT :> TestMetaData("book1", "nullopt")) @@ (StemET :> TestMetaData("book2", "true")) }

\* positions of the characters of chars in s
Positions(s, chars) == {i \in 1..Len(s) : s[i] \in chars}
MinOf(S) == CHOOSE x \in S : \A y \in S : x <= y
MaxOf(S) == CHOOSE x \in S : \A y \in S : x >= y

\* s.substr(0, s.find_first_of(chars)): all of s when no character is found (npos)
UpToFirstOf(s, chars) ==
    IF Positions(s, chars) = {} THEN s ELSE SubSeq(s, 1, MinOf(Positions(s, chars)) - 1)

\* s.substr(0, s.find_last_of(c))
UpToLastOf(s, c) ==
    IF Positions(s, {c}) = {} THEN s ELSE SubSeq(s, 1, MaxOf(Positions(s, {c})) - 1)

\* fs::path::filename and fs::path::parent_path of a relative path name
Filename(pathname) ==
    IF Positions(pathname, {"/"}) = {} THEN pathname
    ELSE SubSeq(pathname, MaxOf(Positions(pathname, {"/"})) + 1, Len(pathname))
ParentPath(pathname) == IF Positions(pathname, {"/"}) = {} THEN <<>> ELSE UpToLastOf(pathname, "/")

\* fs::path operator/
Join(parent, name) == IF parent = <<>> THEN name ELSE parent \o <<"/">> \o name

\* std::string test_id
TestId(pathname) ==
    IF revision = RevFixFen
    THEN UpToFirstOf(Filename(pathname), {"-", "."})
    ELSE UpToLastOf(Filename(pathname), "-")

\* std::string test_filename, the stem of the test's sidecar file
TestFilename(pathname) ==
    IF revision = RevFixFen
    THEN Join(ParentPath(pathname), TestId(pathname))
    ELSE UpToLastOf(pathname, "-")

\* mutant: the cache is keyed by the test identifier
MetaKeyById(test_id, test_filename) == test_id

\* the key of meta_map
MetaKey(test_id, test_filename) == test_filename

\* mutant: test_warned is not consulted
WarnAgain(warned, test_filename) == TRUE

\* the guard of the warning: this stem was not warned about before
NotWarned(warned, test_filename) == test_filename \notin warned

IdleMeta ==
    /\ file_list = <<>>
    /\ allow_duplicates = FALSE
    /\ json_files = <<>>
    /\ scanned = 0
    /\ test_map = <<>>
    /\ test_warned = {}
    /\ meta_map = <<>>
    /\ meta_pc = "idle"
    /\ raised = <<>>
    /\ loads = EmptyBag

InitMeta ==
    /\ file_list \in UNION {[1..n -> Paths] : n \in 0..MaxFileList}
    /\ allow_duplicates \in BOOLEAN
    /\ json_files \in FileSystems
    /\ scanned = 0
    /\ test_map = <<>>
    /\ test_warned = {}
    /\ meta_map = <<>>
    /\ meta_pc = "scan"
    /\ raised = <<>>
    /\ loads = EmptyBag

\* one turn of for (const auto &pathname : file_list)
ScanFile ==
    /\ meta_pc = "scan"
    /\ scanned < Len(file_list)
    /\ LET pathname == file_list[scanned + 1]
           test_id == TestId(pathname)
           test_filename == TestFilename(pathname)
           fresh == test_id \notin DOMAIN test_map
           conflict == ~fresh /\ test_map[test_id] # test_filename
                          /\ NotWarned(test_warned, test_filename)
           exits == conflict /\ ~allow_duplicates
           key == MetaKey(test_id, test_filename)
           parses == ~exits /\ key \notin DOMAIN meta_map /\ test_filename \in DOMAIN json_files
       IN /\ test_map' = IF fresh THEN test_map @@ (test_id :> test_filename) ELSE test_map
          /\ test_warned' = IF conflict THEN test_warned \cup {test_filename} ELSE test_warned
          /\ raised' = IF conflict THEN Append(raised, <<scanned + 1, test_filename>>) ELSE raised
          /\ meta_pc' = IF exits THEN "exit" ELSE "scan"
          /\ meta_map' = IF parses THEN meta_map @@ (key :> json_files[test_filename])
                         ELSE meta_map
          /\ loads' = IF parses THEN loads (+) SetToBag({test_filename}) ELSE loads
          /\ scanned' = IF exits THEN scanned ELSE scanned + 1
    /\ UNCHANGED <<file_list, allow_duplicates, json_files>>

\* return meta_map
ScanReturn ==
    /\ meta_pc = "scan"
    /\ scanned = Len(file_list)
    /\ meta_pc' = "returned"
    /\ UNCHANGED <<file_list, allow_duplicates, json_files, scanned, test_map, test_warned,
                   meta_map, raised, loads>>

\* ------------------------------------------- filter_files_book / filter_files_sprt
\* the values of --matchBook and, for each, the book names std::regex_match accepts
\* (the whole name has to match the pattern)
NoMatchBook == ""
MatchBooks == {"book1", "book.*"}
RegexLanguage == ("book1" :> {"book1"}) @@ ("book.*" :> {"book1", "book2"})
regex_match(book, regex_book) == book \in RegexLanguage[regex_book]

\* std::optional::has_value
has_value(opt) == opt # "nullopt"

\* mutant: the two polarities are swapped
BookVerdictSwapped(match, invert) == IF invert THEN ~match ELSE match

\* return invert ? match : !match;  (true removes the file)
BookVerdict(match, invert) == IF invert THEN match ELSE ~match

\* mutant: a file without metadata or book entry stays
MissingBookKept(test_filename) == FALSE

\* "missing metadata or book entry can never match": return true
MissingBook(test_filename) == TRUE

\* pred of filter_files_book: TRUE removes pathname
BookPred(pathname, meta, regex_book, invert) ==
    LET test_filename == TestFilename(pathname)
    IN IF test_filename \in DOMAIN meta /\ has_value(meta[test_filename].book)
       THEN BookVerdict(regex_match(meta[test_filename].book, regex_book), invert)
       ELSE MissingBook(test_filename)

\* file_list.erase(std::remove_if(begin, end, pred), end), which keeps the order of the rest
filter_files_book(list, meta, regex_book, invert) ==
    SelectSeq(list, LAMBDA pathname : ~BookPred(pathname, meta, regex_book, invert))

\* mutant: the flag is not looked at, metadata is enough
SprtPredAnyMeta(pathname, meta) == TestFilename(pathname) \notin DOMAIN meta

\* pred of filter_files_sprt: TRUE removes pathname
SprtPred(pathname, meta) ==
    LET test_filename == TestFilename(pathname)
    IN IF /\ test_filename \in DOMAIN meta
          /\ has_value(meta[test_filename].sprt)
          /\ meta[test_filename].sprt = "true"
       THEN FALSE
       ELSE TRUE

filter_files_sprt(list, meta) == SelectSeq(list, LAMBDA pathname : ~SprtPred(pathname, meta))

\* split_chunks as a function of its arguments
RECURSIVE SplitFrom(_, _, _)
SplitFrom(list, chunks_size, from) ==
    IF from = Len(list) THEN <<>>
    ELSE LET next == from + Min(chunks_size, Len(list) - from)
         IN <<Slice(list, from, next)>> \o SplitFrom(list, chunks_size, next)
split_chunks(list, target) == SplitFrom(list, ChunksSize(Len(list), target), 0)

\* options.concurrency
concurrency == Cardinality(Workers)

\* the default of CLIOptions::matchBookInverted
DefaultInverted(rev) == rev = RevConclusive

\* the lists get_files can return: every file once
FilterPaths == {PathDT0, PathDT1, PathET0, PathDU}
FileLists ==
    {l \in UNION {[1..n -> FilterPaths] : n \in 0..MaxFileList} :
        \A i, j \in 1..Len(l) : i # j => l[i] # l[j]}

\* the TestMetaData values of the tests: from_json only ever sets sprt to true,
\* the filter is also given the value false a caller could pass
MetaValues ==
    {TestMetaData("book1", "true"), TestMetaData("book2", "nullopt"),
     TestMetaData("nullopt", "false")}
MetaMaps ==
    {<<>>} \cup {(StemDT :> m) : m \in MetaValues} \cup {(StemET :> m) : m \in MetaValues}
      \cup {(StemDT :> m) @@ (StemET :> n) : m \in MetaValues, n \in MetaValues}

IdleFilter ==
    /\ files_pgn = <<>>
    /\ filter_meta = <<>>
    /\ match_book = NoMatchBook
    /\ matchBookInverted = FALSE
    /\ only_sprt = FALSE
    /\ files_chunked = <<>>
    /\ filter_pc = "idle"
    /\ files_found = <<>>

\* process() after get_files and get_metadata, with the options main can set
InitFilter ==
    /\ files_pgn \in FileLists
    /\ files_found = files_pgn
    /\ filter_meta \in MetaMaps
    /\ match_book \in {NoMatchBook} \cup MatchBooks
    /\ matchBookInverted \in
          (IF match_book = NoMatchBook THEN {DefaultInverted(revision)}
           ELSE {DefaultInverted(revision), TRUE})
    /\ only_sprt \in BOOLEAN
    /\ files_chunked = <<>>
    /\ filter_pc = "book"

\* if (!options.match_book.empty()) filter_files_book(...)
FilterBook ==
    /\ filter_pc = "book"
    /\ files_pgn' = IF match_book # NoMatchBook
                    THEN filter_files_book(files_pgn, filter_meta, match_book, matchBookInverted)
                    ELSE files_pgn
    /\ filter_pc' = "sprt"
    /\ UNCHANGED <<filter_meta, match_book, matchBookInverted, only_sprt, files_chunked,
                   files_found>>

\* if (options.only_sprt) filter_files_sprt(...)
FilterSprt ==
    /\ filter_pc = "sprt"
    /\ files_pgn' = IF only_sprt THEN filter_files_sprt(files_pgn, filter_meta) ELSE files_pgn
    /\ filter_pc' = "split"
    /\ UNCHANGED <<filter_meta, match_book, matchBookInverted, only_sprt, files_chunked,
                   files_found>>

\* files_chunked = split_chunks(files_pgn, target_chunks), each chunk is enqueued
Enqueue ==
    /\ filter_pc = "split"
    /\ files_chunked' = split_chunks(files_pgn, 4 * concurrency)
    /\ filter_pc' = "enqueued"
    /\ UNCHANGED <<files_pgn, filter_meta, match_book, matchBookInverted, only_sprt,
                   files_found>>

\* ------------------------------------------------------------ write_results
\* draw_rate() == other.draw_rate() and draw_rate() < other.draw_rate(): the quotients
\* double(draws) / total() of counts this small are equal exactly when the fractions
\* are, and 0.0 / 0 is NaN, which compares false with everything
DrawRateEqual(a, b) ==
    total(a) # 0 /\ total(b) # 0 /\ a.draws * total(b) = b.draws * total(a)
DrawRateLess(a, b) ==
    total(a) # 0 /\ total(b) # 0 /\ a.draws * total(b) < b.draws * total(a)

\* mutant: equal draw rates are ordered by the lower total
LessLowerTotal(a, b) ==
    IF DrawRateEqual(a, b)
    THEN IF total(a) = total(b)
         THEN IF a.wins = b.wins
              THEN IF a.draws = b.draws THEN a.losses > b.losses ELSE a.draws > b.draws
              ELSE a.wins > b.wins
         ELSE total(a) < total(b)
    ELSE DrawRateLess(a, b)

\* Statistics::operator<: Less(a, b) is a < b
Less(a, b) ==
    IF DrawRateEqual(a, b)
    THEN IF total(a) = total(b)
         THEN IF a.wins = b.wins
              THEN IF a.draws = b.draws THEN a.losses > b.losses ELSE a.draws > b.draws
              ELSE a.wins > b.wins
         ELSE total(a) > total(b)
    ELSE DrawRateLess(a, b)

\* the orders the entries of a table can be listed in
Listings(table) ==
    {l \in [1..Cardinality(DOMAIN table) -> DOMAIN table] :
        \A i, j \in DOMAIN l : i # j => l[i] # l[j]}

\* sorted_map after std::sort with a.second < b.second: std::sort is not stable and the
\* table is iterated in hash order, so every listing that the comparator does not
\* contradict can come out; the revision without the sort lists in hash order
sorted_maps(table, sorts) ==
    {[i \in DOMAIN l |-> <<l[i], table[l[i]]>>] :
        l \in {k \in Listings(table) :
                  sorts => \A i, j \in DOMAIN k : i < j => ~Less(table[k[j]], table[k[i]])}}

\* mutant: the counter is not compared with the total
OneOutcomeAny(stats) == stats.wins > 0 \/ stats.draws > 0 \/ stats.losses > 0

\* the test of the conclusive filter: only wins, only draws or only losses
OneOutcome(stats) ==
    \/ (stats.wins > 0 /\ total(stats) = stats.wins)
    \/ (stats.draws > 0 /\ total(stats) = stats.draws)
    \/ (stats.losses > 0 /\ total(stats) = stats.losses)

RECURSIVE SumOf(_, _)
SumOf(rows, field) ==
    IF rows = <<>> THEN 0 ELSE Head(rows)[2][field] + SumOf(Tail(rows), field)

NoReport ==
    [written |-> FALSE, conclusive |-> FALSE, rows |-> <<>>,
     wins |-> 0, draws |-> 0, losses |-> 0, total_games |-> 0]

\* the reports write_results can leave for the table as it is
write_results(conclusive) ==
    {[written |-> TRUE, conclusive |-> conclusive,
      rows |-> SelectSeq(sorted_map, LAMBDA row : conclusive => OneOutcome(row[2])),
      wins |-> SumOf(SelectSeq(sorted_map, LAMBDA row : conclusive => OneOutcome(row[2])), "wins"),
      draws |-> SumOf(SelectSeq(sorted_map, LAMBDA row : conclusive => OneOutcome(row[2])), "draws"),
      losses |-> SumOf(SelectSeq(sorted_map, LAMBDA row : conclusive => OneOutcome(row[2])), "losses"),
      total_games |-> total_games] :
        sorted_map \in sorted_maps(occurance_map, revision # RevInitial)}

\* ------------------------------------------------------------ get_fixfen
\* the lines a --fixFENsource file can hold, as their whitespace-separated fields
RecA37 == <<"A", "w", "-", "-", "3", "7">>
RecA01 == <<"A", "w", "-", "-", "0", "1">>
RecA127 == <<"A", "w", "-", "-", "12", "7">>
RecA30 == <<"A", "w", "-", "-", "3", "0">>
RecA3 == <<"A", "w", "-", "-", "3">>
RecAx7 == <<"A", "w", "-", "-", "x", "7">>
RecB59 == <<"B", "b", "-", "-", "5", "9">>
Records == {RecA37, RecA01, RecA127, RecA30, RecA3, RecAx7, RecB59}

\* the position strings fixFen is called with
FenB01 == <<"B", "b", "-", "-", "0", "1">>
FenViews == {FenA, FenB, FenB01, STARTPOS}

\* operator>>(int&) on one field: the fields that are numbers, and their values
IntFields == ("0" :> 0) @@ ("1" :> 1) @@ ("3" :> 3) @@ ("5" :> 5) @@ ("7" :> 7)
                @@ ("9" :> 9) @@ ("12" :> 12)

\* iss >> f1 >> f2 >> f3 >> ep >> halfmove >> fullmove: the first extraction that
\* fails puts the stream in the fail state and the later ones leave their target
\* alone, so fullmove keeps its 0 unless all six fields are read
Extracted(line) ==
    IF Len(line) >= 6 /\ line[5] \in DOMAIN IntFields /\ line[6] \in DOMAIN IntFields
    THEN [halfmove |-> IntFields[line[5]], fullmove |-> IntFields[line[6]]]
    ELSE [halfmove |-> 0, fullmove |-> 0]

\* mutant: the higher full move counter is preferred
PreferHigher(fullmove, second) == fullmove > second

\* "for duplicate FENs, prefer the one with lower full move counter"
PreferLower(fullmove, second) == fullmove < second

IdleFixFen ==
    /\ lines = <<>>
    /\ line_no = 0
    /\ fixfen_map = <<>>
    /\ game_fen = <<>>
    /\ fixed_value = <<>>
    /\ fixfen_pc = "idle"

InitFixFen ==
    /\ lines \in UNION {[1..n -> Records] : n \in 0..MaxRecords}
    /\ line_no = 0
    /\ fixfen_map = <<>>
    /\ game_fen \in FenViews
    /\ fixed_value = <<>>
    /\ fixfen_pc = "scan"

\* one turn of while (std::getline(iss, line))
ReadLine ==
    /\ fixfen_pc = "scan"
    /\ line_no < Len(lines)
    /\ line_no' = line_no + 1
    /\ LET line == lines[line_no + 1]
           halfmove == Extracted(line).halfmove
           fullmove == Extracted(line).fullmove
           key == SubSeq(line, 1, 4)
           fixfen_data == <<halfmove, fullmove>>
       IN fixfen_map' =
             IF fullmove = 0 THEN fixfen_map
             ELSE IF key \in DOMAIN fixfen_map
                  THEN IF PreferLower(fullmove, fixfen_map[key][2])
                       THEN Put(fixfen_map, key, fixfen_data)
                       ELSE fixfen_map
                  ELSE Put(fixfen_map, key, fixfen_data)
    /\ UNCHANGED <<lines, game_fen, fixed_value, fixfen_pc>>
    /\ UNCHANGED fixfens

\* return fixfen_map; options.fixfens = get_fixfen(file)
ReturnFixFen ==
    /\ fixfen_pc = "scan"
    /\ line_no = Len(lines)
    /\ fixfens' = fixfen_map
    /\ fixfen_pc' = "returned"
    /\ UNCHANGED <<lines, line_no, fixfen_map, game_fen, fixed_value>>

\* a game's position string goes through fixFen with the table that was read
CallFixFen ==
    /\ fixfen_pc = "returned"
    /\ fixed_value' = fixFen(game_fen)
    /\ fixfen_pc' = IF fixFen(game_fen) = ExitKey THEN "exit" ELSE "fixed"
    /\ UNCHANGED <<lines, line_no, fixfen_map, game_fen>>
    /\ UNCHANGED fixfens

\* ------------------------------------------------ Statistics::operator< alone
Counts == 0..MaxCount
Triples ==
    {s \in [wins : Counts, draws : Counts, losses : Counts] : total(s) >= 1}

IdleCompare ==
    /\ stats_a = NoStatistics
    /\ stats_b = NoStatistics
    /\ stats_c = NoStatistics
    /\ compared = <<>>
    /\ sorted_rows = <<>>
    /\ cmp_pc = "idle"

InitCompare ==
    /\ stats_a \in Triples
    /\ stats_b \in Triples
    /\ stats_c \in Triples
    /\ compared = <<>>
    /\ sorted_rows = <<>>
    /\ cmp_pc = "compare"

\* operator< on every pair, and std::sort of the three as rows of a table
Compare ==
    /\ cmp_pc = "compare"
    /\ compared' = [ab |-> Less(stats_a, stats_b), ba |-> Less(stats_b, stats_a),
                    bc |-> Less(stats_b, stats_c), cb |-> Less(stats_c, stats_b),
                    ac |-> Less(stats_a, stats_c), ca |-> Less(stats_c, stats_a),
                    aa |-> Less(stats_a, stats_a)]
    /\ sorted_rows' \in
          sorted_maps(("a" :> stats_a) @@ ("b" :> stats_b) @@ ("c" :> stats_c), TRUE)
    /\ cmp_pc' = "compared"
    /\ UNCHANGED <<stats_a, stats_b, stats_c>>

\* ------------------------------------------------- the worker pool of process
\* what a pgn file holds: game records, here the key and the outcome each is
\* aggregated under, and places where parser.readGames throws
GameB == <<FenB, WIN>>
GameS == <<STARTPOS, DRAW>>
ParseError == <<"std::exception">>
Contents == {<<GameB>>, <<GameS, ParseError, GameB>>}

NoTask == [task |-> 0, file |-> 0, item |-> 0]

\* the threads of ThreadPool pool(options.concurrency)
Threads == IF options_concurrency = 1 THEN {"w1"} ELSE Workers

IdlePool ==
    /\ options_concurrency = 0
    /\ file_system = <<>>
    /\ tasks = <<>>
    /\ queue = <<>>
    /\ task_of = <<>>
    /\ total_chunks = 0
    /\ started = EmptyBag
    /\ finished = EmptyBag

\* process() after the loop that enqueues one task per chunk
InitPool ==
    /\ options_concurrency \in 1..Cardinality(Workers)
    /\ \E n \in 0..MaxPoolFiles : file_system \in [1..n -> Contents]
    /\ tasks = split_chunks([i \in DOMAIN file_system |-> i], 4 * options_concurrency)
    /\ queue = [i \in 1..Len(tasks) |-> i]
    /\ task_of = [w \in Workers |-> NoTask]
    /\ total_chunks = 0
    /\ started = EmptyBag
    /\ finished = EmptyBag

\* the file and the record worker w is at
FileOf(w) == tasks[task_of[w].task][task_of[w].file]
InFile(w) == task_of[w].task # 0 /\ task_of[w].file <= Len(tasks[task_of[w].task])
AtItem(w) == InFile(w) /\ task_of[w].item <= Len(file_system[FileOf(w)])
ItemOf(w) == file_system[FileOf(w)][task_of[w].item]

\* the process is there and thread w is not inside std::exit
Running(w) == ~ended /\ analyzer[w].pc # "exit"

\* a free thread of the pool takes the next task
TakeTask(w) ==
    /\ Running(w)
    /\ w \in Threads
    /\ task_of[w] = NoTask
    /\ queue # <<>>
    /\ task_of' = [task_of EXCEPT ![w] = [task |-> Head(queue), file |-> 1, item |-> 1]]
    /\ queue' = Tail(queue)
    /\ started' = started (+) SetToBag({<<Head(queue), w>>})
    /\ UNCHANGED <<options_concurrency, file_system, tasks, total_chunks, finished>>
    /\ UNCHANGED <<occurance_map, total_games>>

\* parser.readGames hands one game record to the Analyzer, which aggregates it
ReadGame(w) ==
    /\ Running(w)
    /\ AtItem(w)
    /\ ItemOf(w) # ParseError
    /\ LET aggregated == ItemOf(w)[2] # UNKNOWN
           fixed_fen == fixFen(ItemOf(w)[1])
       IN /\ aggregated => fixed_fen # ExitKey
          /\ occurance_map' = IF aggregated THEN Upsert(occurance_map, fixed_fen, ItemOf(w)[2])
                              ELSE occurance_map
          /\ total_games' = IF aggregated THEN total_games + 1 ELSE total_games
    /\ task_of' = [task_of EXCEPT ![w].item = @ + 1]
    /\ UNCHANGED <<options_concurrency, file_system, tasks, queue, total_chunks, started,
                   finished>>

\* fixFen finds no entry for the position of the game: std::exit(1) is called
ExitInFixFen(w) ==
    /\ Running(w)
    /\ AtItem(w)
    /\ ItemOf(w) # ParseError
    /\ ItemOf(w)[2] # UNKNOWN
    /\ fixFen(ItemOf(w)[1]) = ExitKey
    /\ analyzer' = [analyzer EXCEPT ![w].pc = "exit"]
    /\ exited' = TRUE
    /\ UNCHANGED poolVars
    /\ UNCHANGED <<occurance_map, total_games>>

\* mutant: the exception leaves analyze_pgn, the rest of the chunk is not read
CatchAroundLoop(w) ==
    /\ Running(w)
    /\ AtItem(w)
    /\ ItemOf(w) = ParseError
    /\ task_of' = [task_of EXCEPT ![w].file = Len(tasks[task_of[w].task]) + 1, ![w].item = 1]
    /\ UNCHANGED <<options_concurrency, file_system, tasks, queue, total_chunks, started,
                   finished>>
    /\ UNCHANGED <<occurance_map, total_games>>

\* parser.readGames throws: catch (const std::exception &), the loop goes on to the
\* next file of the chunk
CatchException(w) ==
    /\ Running(w)
    /\ AtItem(w)
    /\ ItemOf(w) = ParseError
    /\ task_of' = [task_of EXCEPT ![w].file = @ + 1, ![w].item = 1]
    /\ UNCHANGED <<options_concurrency, file_system, tasks, queue, total_chunks, started,
                   finished>>
    /\ UNCHANGED <<occurance_map, total_games>>

\* parser.readGames returns at the end of the file
EndOfFile(w) ==
    /\ Running(w)
    /\ InFile(w)
    /\ ~AtItem(w)
    /\ task_of' = [task_of EXCEPT ![w].file = @ + 1, ![w].item = 1]
    /\ UNCHANGED <<options_concurrency, file_system, tasks, queue, total_chunks, started,
                   finished>>
    /\ UNCHANGED <<occurance_map, total_games>>

\* mutant: the task returns without total_chunks++
FinishTaskUncounted(w) ==
    /\ Running(w)
    /\ task_of[w].task # 0
    /\ ~InFile(w)
    /\ task_of' = [task_of EXCEPT ![w] = NoTask]
    /\ finished' = finished (+) SetToBag({<<task_of[w].task, w>>})
    /\ UNCHANGED <<options_concurrency, file_system, tasks, queue, total_chunks, started>>
    /\ UNCHANGED <<occurance_map, total_games>>

\* analyze_pgn has returned: total_chunks++, progress line, the task is over
FinishTask(w) ==
    /\ Running(w)
    /\ task_of[w].task # 0
    /\ ~InFile(w)
    /\ total_chunks' = total_chunks + 1
    /\ task_of' = [task_of EXCEPT ![w] = NoTask]
    /\ finished' = finished (+) SetToBag({<<task_of[w].task, w>>})
    /\ UNCHANGED <<options_concurrency, file_system, tasks, queue, started>>
    /\ UNCHANGED <<occurance_map, total_games>>

\* ------------------------------------------- one game record, header by header
\* main is not running
IdleMain ==
    /\ argv = <<>>
    /\ main_pc = "idle"
    /\ exit_status = <<>>

IdleRecord ==
    /\ pgn_record = <<>>
    /\ next_header = 0
    /\ visitor = <<>>

\* the records of at most one Result, one FEN and one Termination header, in
\* every order
PgnRecords ==
    {r \in UNION {[1..n -> Headers] : n \in 0..3} :
        \A i, j \in 1..Len(r) : r[i][1] = r[j][1] => i = j}

\* the tokenizer has called startPgn
InitRecord ==
    /\ revision \in Revisions
    /\ pgn_record \in PgnRecords
    /\ next_header = 1
    /\ visitor = [startPgn(FreshAnalyzer) EXCEPT !.pc = "headers"]

\* what the record was aggregated as: the key and the outcome of its upsert, if any
Aggregated(a) == IF a.pc = "emplace" THEN <<a.key, a.result>> ELSE <<>>

\* the tokenizer calls header(key, value) for the next header of the record; an
\* upsert made by the call is followed by skipPgn(true)
DeliverHeader ==
    /\ visitor.pc = "headers"
    /\ ~visitor.skip
    /\ next_header <= Len(pgn_record)
    /\ visitor' = header(visitor, pgn_record[next_header][1], pgn_record[next_header][2])
    /\ next_header' = next_header + 1
    /\ UNCHANGED pgn_record

\* the tokenizer calls startMoves() once the headers are over
CompleteHeaders ==
    /\ visitor.pc = "headers"
    /\ visitor.skip \/ next_header > Len(pgn_record)
    /\ visitor' = startMoves(visitor)
    /\ UNCHANGED <<pgn_record, next_header>>

IdleAgg ==
    /\ fixfens = <<>>
    /\ occurance_map = <<>>
    /\ mutex = <<>>
    /\ total_games = 0
    /\ analyzer = <<>>
    /\ games_left = 0
    /\ exited = FALSE
    /\ events = EmptyBag
    /\ ended = FALSE
    /\ report = NoReport

\* ------------------------------------------------------------------ actions
InitAgg ==
    /\ revision \in Revisions
    /\ fixfens \in (IF HasStartMoves(revision) THEN FixFenTables ELSE {NoFixFens})
    /\ occurance_map = <<>>
    /\ mutex = [s \in Shards |-> FALSE]
    /\ total_games = 0
    /\ analyzer = [w \in Workers |-> FreshAnalyzer]
    /\ games_left \in 1..MaxGames
    /\ exited = FALSE
    /\ events = EmptyBag
    /\ ended = FALSE
    /\ report = NoReport
    /\ IdleChunks
    /\ IdleMeta
    /\ IdleFilter
    /\ IdleFixFen
    /\ IdleCompare /\ IdlePool /\ IdleRecord /\ IdleMain

\* the tokenizer starts the next game record of a worker's file
StartPgn(w) ==
    /\ ~ended
    /\ analyzer[w].pc = "idle"
    /\ games_left > 0
    /\ games_left' = games_left - 1
    /\ analyzer' = [analyzer EXCEPT ![w] =
          [startPgn(@) EXCEPT !.pc = "headers", !.skip = FALSE,
                              !.seen = NoSeen, !.acted = FALSE]]
    /\ UNCHANGED <<revision, fixfens, occurance_map, mutex, total_games, exited, events>>
    /\ UNCHANGED <<ended, report, chunkVars, metaVars, filterVars, fixfenVars, cmpVars, poolVars, recordVars, mainVars>>

\* the tokenizer delivers one header of the current record, each key at most
\* once, and none after skipPgn(true)
Header(w) ==
    /\ ~ended
    /\ analyzer[w].pc = "headers"
    /\ ~analyzer[w].skip
    /\ \E h \in Headers :
          /\ NotSeen(analyzer[w].seen, h[1])
          /\ analyzer' = [analyzer EXCEPT ![w] =
                [header(@, h[1], h[2]) EXCEPT !.seen = Note(@, h[1], h[2])]]
    /\ UNCHANGED <<revision, fixfens, occurance_map, mutex, total_games, games_left,
                   exited, events>>
    /\ UNCHANGED <<ended, report, chunkVars, metaVars, filterVars, fixfenVars, cmpVars, poolVars, recordVars, mainVars>>

\* the tokenizer signals that the headers are complete
StartMoves(w) ==
    /\ ~ended
    /\ analyzer[w].pc = "headers"
    /\ analyzer' = [analyzer EXCEPT ![w] = startMoves(@)]
    /\ exited' = (exited \/ analyzer'[w].pc = "exit")
    /\ UNCHANGED <<revision, fixfens, occurance_map, mutex, total_games, games_left, events>>
    /\ UNCHANGED <<ended, report, chunkVars, metaVars, filterVars, fixfenVars, cmpVars, poolVars, recordVars, mainVars>>

\* lazy_emplace_l: take the submap lock and look the key up
LockFind(w) ==
    /\ ~ended
    /\ analyzer[w].pc = "emplace"
    /\ LockFree(mutex, Shard(analyzer[w].key))
    /\ mutex' = [mutex EXCEPT ![Shard(analyzer[w].key)] = TRUE]
    /\ analyzer' = [analyzer EXCEPT ![w] =
          [@ EXCEPT !.pc = "locked",
                    !.found = (analyzer[w].key \in DOMAIN occurance_map),
                    !.old = IF analyzer[w].key \in DOMAIN occurance_map
                            THEN occurance_map[analyzer[w].key] ELSE NoStatistics]]
    /\ UNCHANGED <<revision, fixfens, occurance_map, total_games, games_left, exited, events>>
    /\ UNCHANGED <<ended, report, chunkVars, metaVars, filterVars, fixfenVars, cmpVars, poolVars, recordVars, mainVars>>

\* lazy_emplace_l: run the lambda on what was found, store, release the lock
Store(w) ==
    /\ ~ended
    /\ analyzer[w].pc = "locked"
    /\ LET a == analyzer[w]
           v == IF a.found THEN IncrementExisting(a.old, a.result)
                ELSE ConstructNew(a.result)
       IN /\ occurance_map' = Put(occurance_map, a.key, v)
          /\ events' = events (+) SetToBag({<<a.key, a.result>>})
          /\ analyzer' = [analyzer EXCEPT ![w] =
                [@ EXCEPT !.pc = IF HasTotalGames(revision) THEN "count" ELSE "headers",
                          !.skip = IF HasTotalGames(revision) THEN @ ELSE TRUE,
                          !.key = <<>>, !.found = FALSE, !.old = NoStatistics,
                          !.acted = @ \/ (occurance_map' # occurance_map)]]
    /\ mutex' = [mutex EXCEPT ![Shard(analyzer[w].key)] = FALSE]
    /\ UNCHANGED <<revision, fixfens, total_games, games_left, exited>>
    /\ UNCHANGED <<ended, report, chunkVars, metaVars, filterVars, fixfenVars, cmpVars, poolVars, recordVars, mainVars>>

\* mutant: the increment of total_games is left out
CountForgotten(w) ==
    /\ ~ended
    /\ analyzer[w].pc = "count"
    /\ analyzer' = [analyzer EXCEPT ![w] =
          [@ EXCEPT !.pc = IF HasStartMoves(revision) THEN "moves" ELSE "headers",
                    !.skip = TRUE, !.acted = TRUE]]
    /\ UNCHANGED <<revision, fixfens, occurance_map, mutex, total_games, games_left,
                   exited, events>>
    /\ UNCHANGED <<ended, report, chunkVars, metaVars, filterVars, fixfenVars, cmpVars, poolVars, recordVars, mainVars>>

\* total_games++
Count(w) ==
    /\ ~ended
    /\ analyzer[w].pc = "count"
    /\ total_games' = total_games + 1
    /\ analyzer' = [analyzer EXCEPT ![w] =
          [@ EXCEPT !.pc = IF HasStartMoves(revision) THEN "moves" ELSE "headers",
                    !.skip = TRUE, !.acted = TRUE]]
    /\ UNCHANGED <<revision, fixfens, occurance_map, mutex, games_left, exited, events>>
    /\ UNCHANGED <<ended, report, chunkVars, metaVars, filterVars, fixfenVars, cmpVars, poolVars, recordVars, mainVars>>

\* Analyzer::endPgn: the record is over
EndPgn(w) ==
    /\ ~ended
    /\ analyzer[w].pc = "moves"
    /\ analyzer' = [analyzer EXCEPT ![w] =
          [@ EXCEPT !.pc = "idle", !.seen = NoSeen, !.acted = FALSE, !.skip = FALSE]]
    /\ UNCHANGED <<revision, fixfens, occurance_map, mutex, total_games, games_left,
                   exited, events>>
    /\ UNCHANGED <<ended, report, chunkVars, metaVars, filterVars, fixfenVars, cmpVars, poolVars, recordVars, mainVars>>

\* pool.wait() has returned: no task and no record is left, and every worker is
\* between tasks and between records
Joined ==
    /\ games_left = 0
    /\ \A w \in Workers : analyzer[w].pc = "idle"
    /\ queue = <<>>
    /\ \A w \in DOMAIN task_of : task_of[w] = NoTask

\* std::exit(1) of a worker thread runs to its end: the exit handlers and the
\* destructors of the statics have run beside the other workers, the process is gone
ProcessEnds ==
    /\ exited
    /\ ~ended
    /\ ended' = TRUE
    /\ UNCHANGED <<revision, fixfens, occurance_map, mutex, total_games, analyzer,
                   games_left, exited, events, report>>
    /\ UNCHANGED <<chunkVars, metaVars, filterVars, fixfenVars, cmpVars, poolVars, recordVars, mainVars>>

\* mutant: process() returns without pool.wait()
WriteResultsNoWait ==
    /\ ~report.written
    /\ \E conclusive \in (IF revision = RevConclusive THEN BOOLEAN ELSE {FALSE}) :
          report' \in write_results(conclusive)
    /\ UNCHANGED <<revision, fixfens, occurance_map, mutex, total_games, analyzer,
                   games_left, exited, events, ended>>
    /\ UNCHANGED <<chunkVars, metaVars, filterVars, fixfenVars, cmpVars, poolVars, recordVars, mainVars>>

\* main: process() has returned from pool.wait(), write_results() runs
WriteResultsMain ==
    /\ Joined
    /\ ~report.written
    /\ \E conclusive \in (IF revision = RevConclusive THEN BOOLEAN ELSE {FALSE}) :
          report' \in write_results(conclusive)
    /\ UNCHANGED <<revision, fixfens, occurance_map, mutex, total_games, analyzer,
                   games_left, exited, events, ended>>
    /\ UNCHANGED <<chunkVars, metaVars, filterVars, fixfenVars, cmpVars, poolVars, recordVars, mainVars>>

\* the tables a run of the revisions that sort can end with, every worker joined
ReportKeys == {FenB, STARTPOS}
Tables == UNION {[keys -> Triples] : keys \in SUBSET ReportKeys}
GamesUnder(table, key) == IF key \in DOMAIN table THEN total(table[key]) ELSE 0
InitJoined ==
    /\ revision \in {RevFixFen, RevConclusive}
    /\ fixfens = NoFixFens
    /\ occurance_map \in Tables
    /\ mutex = [s \in Shards |-> FALSE]
    /\ total_games = GamesUnder(occurance_map, FenB) + GamesUnder(occurance_map, STARTPOS)
    /\ analyzer = [w \in Workers |-> FreshAnalyzer]
    /\ games_left = 0
    /\ exited = FALSE
    /\ events = EmptyBag
    /\ ended = FALSE
    /\ report = NoReport

NextAgg ==
    \/ \E w \in Workers : StartPgn(w)
    \/ \E w \in Workers : Header(w)
    \/ \E w \in Workers : StartMoves(w)
    \/ \E w \in Workers : LockFind(w)
    \/ \E w \in Workers : Store(w)
    \/ \E w \in Workers : Count(w)
    \/ \E w \in Workers : EndPgn(w)
    \/ ProcessEnds
    \/ WriteResultsMain

Init == InitAgg
Next == NextAgg
Spec == Init /\ [][Next]_vars

\* write_results on every table of the bounds
InitReport ==
    /\ InitJoined
    /\ IdleChunks /\ IdleMeta /\ IdleFilter /\ IdleFixFen /\ IdleCompare /\ IdlePool /\ IdleRecord /\ IdleMain
NextReport == WriteResultsMain
SpecReport == InitReport /\ [][NextReport]_vars

\* ------------------------------------------------------------------- main
\* CommandLine::has
has(args, flag) == \E i \in 1..Len(args) : args[i] = flag

\* CommandLine::get: what follows the first occurrence of the flag, "" when the
\* flag is absent or last
get(args, flag) ==
    IF has(args, flag)
    THEN LET it == MinOf({i \in 1..Len(args) : args[i] = flag})
         IN IF it + 1 <= Len(args) THEN args[it + 1] ELSE ""
    ELSE ""

\* the command lines main is run with
MainArgs ==
    { <<>>,
      <<"--matchBook">>,
      <<"--matchBook", "">>,
      <<"--matchBook", "book1">>,
      <<"--allowDuplicates">>,
      <<"--allowDuplicates", "--matchBook", "book1">>,
      <<"--allowDuplicates", "--matchBook">> }

\* what get_files finds: no file, one file, two tests t in different directories,
\* three files without such a conflict, three files with the conflict at the end
MainFileLists ==
    { <<>>,
      <<PathDT0>>,
      <<PathDT0, PathET0>>,
      <<PathDT0, PathDT1, PathDU>>,
      <<PathDT0, PathDU, PathET1>> }

\* a game without a Result header, which startMoves leaves out
GameU == <<FenB, UNKNOWN>>
ContentsMain == Contents \cup {<<GameU, GameB>>}

\* main is entered: the options have their defaults, nothing has run
InitMain ==
    /\ revision = RevFixFen
    /\ fixfens \in FixFenTables
    /\ occurance_map = <<>>
    /\ mutex = [s \in Shards |-> FALSE]
    /\ total_games = 0
    /\ analyzer = [w \in Workers |-> FreshAnalyzer]
    /\ games_left = 0
    /\ exited = FALSE
    /\ events = EmptyBag
    /\ ended = FALSE
    /\ report = NoReport
    /\ file_list \in MainFileLists
    /\ allow_duplicates = FALSE
    /\ json_files \in FileSystems
    /\ scanned = 0
    /\ test_map = <<>>
    /\ test_warned = {}
    /\ meta_map = <<>>
    /\ meta_pc = "idle"
    /\ raised = <<>>
    /\ loads = EmptyBag
    /\ options_concurrency \in 1..Cardinality(Workers)
    /\ file_system \in [1..Len(file_list) -> ContentsMain]
    /\ tasks = <<>>
    /\ queue = <<>>
    /\ task_of = [w \in Workers |-> NoTask]
    /\ total_chunks = 0
    /\ started = EmptyBag
    /\ finished = EmptyBag
    /\ argv \in MainArgs
    /\ main_pc = "args"
    /\ exit_status = <<>>
    /\ IdleChunks /\ IdleFilter /\ IdleFixFen /\ IdleCompare
    /\ pgn_record = <<>> /\ next_header = 0 /\ visitor = <<>>

\* mutant: an empty --matchBook is let through
ParseArgsAnyPattern ==
    /\ main_pc = "args"
    /\ main_pc' = "get_metadata"
    /\ exit_status' = exit_status
    /\ allow_duplicates' = has(argv, "--allowDuplicates")
    /\ meta_pc' = "scan"
    /\ UNCHANGED <<argv, file_list, json_files, scanned, test_map, test_warned, meta_map,
                   raised, loads>>
    /\ UNCHANGED <<revision, aggVars, chunkVars, filterVars, fixfenVars, cmpVars, poolVars,
                   recordVars>>

\* main up to the call of process: an empty --matchBook returns 1
ParseArgs ==
    /\ main_pc = "args"
    /\ IF has(argv, "--matchBook") /\ get(argv, "--matchBook") = ""
       THEN /\ main_pc' = "returned"
            /\ exit_status' = <<1>>
            /\ UNCHANGED <<allow_duplicates, meta_pc>>
       ELSE /\ main_pc' = "get_metadata"
            /\ exit_status' = exit_status
            /\ allow_duplicates' = has(argv, "--allowDuplicates")
            /\ meta_pc' = "scan"
    /\ UNCHANGED <<argv, file_list, json_files, scanned, test_map, test_warned, meta_map,
                   raised, loads>>
    /\ UNCHANGED <<revision, aggVars, chunkVars, filterVars, fixfenVars, cmpVars, poolVars,
                   recordVars>>

\* process: one turn of the loop of get_metadata
GetMetadata ==
    /\ main_pc = "get_metadata"
    /\ ScanFile
    /\ UNCHANGED <<revision, aggVars, chunkVars, filterVars, fixfenVars, cmpVars, poolVars,
                   recordVars, mainVars>>

\* std::exit(1) of get_metadata ends the process
ExitInGetMetadata ==
    /\ main_pc = "get_metadata"
    /\ meta_pc = "exit"
    /\ main_pc' = "exited"
    /\ exit_status' = <<1>>
    /\ UNCHANGED <<argv, revision, aggVars, chunkVars, metaVars, filterVars, fixfenVars,
                   cmpVars, poolVars, recordVars>>

\* process from the return of get_metadata to the end of the enqueue loop
StartPool ==
    /\ main_pc = "get_metadata"
    /\ ScanReturn
    /\ LET book == get(argv, "--matchBook")
           kept == IF book # ""
                   THEN filter_files_book(file_list, meta_map, book,
                                          DefaultInverted(revision))
                   ELSE file_list
           kept_files == SelectSeq([i \in 1..Len(file_list) |-> i],
                                  LAMBDA i : \E j \in 1..Len(kept) : kept[j] = file_list[i])
       IN /\ tasks' = split_chunks(kept_files, 4 * options_concurrency)
          /\ queue' = [i \in 1..Len(tasks') |-> i]
    /\ main_pc' = "pool"
    /\ UNCHANGED <<argv, exit_status, options_concurrency, file_system, task_of, total_chunks,
                   started, finished>>
    /\ UNCHANGED <<revision, aggVars, chunkVars, filterVars, fixfenVars, cmpVars, recordVars>>

\* std::exit(1) called by a worker runs to its end: the process is gone
ExitInWorker ==
    /\ main_pc = "pool"
    /\ exited
    /\ ~ended
    /\ ended' = TRUE
    /\ main_pc' = "exited"
    /\ exit_status' = <<1>>
    /\ UNCHANGED <<argv, revision, fixfens, occurance_map, mutex, total_games, analyzer,
                   games_left, exited, events, report>>
    /\ UNCHANGED <<chunkVars, metaVars, filterVars, fixfenVars, cmpVars, poolVars, recordVars>>

\* return 0 after write_results
ReturnFromMain ==
    /\ main_pc = "pool"
    /\ report.written
    /\ main_pc' = "returned"
    /\ exit_status' = <<0>>
    /\ UNCHANGED <<argv, revision, aggVars, chunkVars, metaVars, filterVars, fixfenVars,
                   cmpVars, poolVars, recordVars>>

\* what a worker of the pool leaves alone
PoolFrame ==
    UNCHANGED <<revision, fixfens, mutex, analyzer, games_left, exited, events, ended,
                report, chunkVars, metaVars, filterVars, fixfenVars, cmpVars, recordVars,
                mainVars>>

\* what a worker that calls std::exit leaves alone
ExitFrame ==
    UNCHANGED <<revision, fixfens, mutex, games_left, events, ended, report, chunkVars,
                metaVars, filterVars, fixfenVars, cmpVars, recordVars, mainVars>>

\* a run of main on every command line, file tree and correction table of the bounds
NextMain ==
    \/ ParseArgs
    \/ GetMetadata
    \/ ExitInGetMetadata
    \/ StartPool
    \/ \E w \in Workers : TakeTask(w) /\ PoolFrame
    \/ \E w \in Workers : ReadGame(w) /\ PoolFrame
    \/ \E w \in Workers : ExitInFixFen(w) /\ ExitFrame
    \/ \E w \in Workers : CatchException(w) /\ PoolFrame
    \/ \E w \in Workers : EndOfFile(w) /\ PoolFrame
    \/ \E w \in Workers : FinishTask(w) /\ PoolFrame
    \/ ExitInWorker
    \/ main_pc = "pool" /\ WriteResultsMain
    \/ ReturnFromMain
SpecMain == InitMain /\ [][NextMain]_vars

\* the pool of process() on every file tree of the bounds, then write_results
InitWorkers ==
    /\ revision = RevFixFen
    /\ fixfens = NoFixFens
    /\ occurance_map = <<>>
    /\ mutex = [s \in Shards |-> FALSE]
    /\ total_games = 0
    /\ analyzer = [w \in Workers |-> FreshAnalyzer]
    /\ games_left = 0
    /\ exited = FALSE
    /\ events = EmptyBag
    /\ ended = FALSE
    /\ report = NoReport
    /\ IdleChunks /\ IdleMeta /\ IdleFilter /\ IdleFixFen /\ IdleCompare /\ IdleRecord /\ IdleMain
    /\ InitPool
NextWorkers ==
    \/ \E w \in Workers : TakeTask(w) /\ PoolFrame
    \/ \E w \in Workers : ReadGame(w) /\ PoolFrame
    \/ \E w \in Workers : CatchException(w) /\ PoolFrame
    \/ \E w \in Workers : EndOfFile(w) /\ PoolFrame
    \/ \E w \in Workers : FinishTask(w) /\ PoolFrame
    \/ WriteResultsMain
SpecPool == InitWorkers /\ [][NextWorkers]_vars
\* the same under fair scheduling: a step that stays possible is eventually taken
SpecPoolFair == SpecPool /\ WF_vars(NextWorkers)

\* one Analyzer on every game record of the bounds, in each revision
InitHeaders ==
    /\ IdleAgg /\ IdleChunks /\ IdleMeta /\ IdleFilter /\ IdleFixFen /\ IdleCompare
    /\ IdlePool /\ IdleMain
    /\ InitRecord
NextHeaders ==
    \/ DeliverHeader /\ UNCHANGED <<revision, aggVars, chunkVars, metaVars, filterVars,
                                    fixfenVars, cmpVars, poolVars, mainVars>>
    \/ CompleteHeaders /\ UNCHANGED <<revision, aggVars, chunkVars, metaVars, filterVars,
                                      fixfenVars, cmpVars, poolVars, mainVars>>
SpecHeaders == InitHeaders /\ [][NextHeaders]_vars

\* split_chunks on every file list and every positive target_chunks of the bounds
InitSplit ==
    /\ revision = RevFixFen
    /\ IdleAgg /\ IdleMeta /\ IdleFilter /\ IdleFixFen /\ IdleCompare /\ IdlePool /\ IdleRecord /\ IdleMain
    /\ InitChunks
NextSplit ==
    \/ SplitLoop /\ UNCHANGED <<revision, aggVars, metaVars, filterVars, fixfenVars, cmpVars, poolVars, recordVars, mainVars>>
    \/ SplitReturn /\ UNCHANGED <<revision, aggVars, metaVars, filterVars, fixfenVars, cmpVars, poolVars, recordVars, mainVars>>
SpecChunks == InitSplit /\ [][NextSplit]_vars

\* get_metadata of the two revisions that have it, on every file list of the bounds
InitScan ==
    /\ revision \in {RevFixFen, RevConclusive}
    /\ IdleAgg /\ IdleChunks /\ IdleFilter /\ IdleFixFen /\ IdleCompare /\ IdlePool /\ IdleRecord /\ IdleMain
    /\ InitMeta
NextScan ==
    \/ ScanFile /\ UNCHANGED <<revision, aggVars, chunkVars, filterVars, fixfenVars, cmpVars, poolVars, recordVars, mainVars>>
    \/ ScanReturn /\ UNCHANGED <<revision, aggVars, chunkVars, filterVars, fixfenVars, cmpVars, poolVars, recordVars, mainVars>>
SpecMeta == InitScan /\ [][NextScan]_vars

\* the filters of process() of the two revisions that have them
InitProcess ==
    /\ revision \in {RevFixFen, RevConclusive}
    /\ IdleAgg /\ IdleChunks /\ IdleMeta /\ IdleFixFen /\ IdleCompare /\ IdlePool /\ IdleRecord /\ IdleMain
    /\ InitFilter
NextProcess ==
    \/ FilterBook /\ UNCHANGED <<revision, aggVars, chunkVars, metaVars, fixfenVars, cmpVars, poolVars, recordVars, mainVars>>
    \/ FilterSprt /\ UNCHANGED <<revision, aggVars, chunkVars, metaVars, fixfenVars, cmpVars, poolVars, recordVars, mainVars>>
    \/ Enqueue /\ UNCHANGED <<revision, aggVars, chunkVars, metaVars, fixfenVars, cmpVars, poolVars, recordVars, mainVars>>
SpecProcess == InitProcess /\ [][NextProcess]_vars

\* get_fixfen on every file of the bounds, then fixFen with the table it returned
InitTable ==
    /\ revision = RevFixFen
    /\ IdleAgg /\ IdleChunks /\ IdleMeta /\ IdleFilter /\ IdleCompare /\ IdlePool /\ IdleRecord /\ IdleMain
    /\ InitFixFen
AggButFixfens == <<occurance_map, mutex, total_games, analyzer, games_left, exited,
                   events, ended, report>>
NextTable ==
    \/ ReadLine /\ UNCHANGED <<revision, AggButFixfens, chunkVars, metaVars, filterVars, cmpVars, poolVars, recordVars, mainVars>>
    \/ ReturnFixFen
          /\ UNCHANGED <<revision, AggButFixfens, chunkVars, metaVars, filterVars, cmpVars, poolVars, recordVars, mainVars>>
    \/ CallFixFen /\ UNCHANGED <<revision, AggButFixfens, chunkVars, metaVars, filterVars, cmpVars, poolVars, recordVars, mainVars>>
SpecFixFen == InitTable /\ [][NextTable]_vars

\* Statistics::operator< on every three values of the bounds
InitOrder ==
    /\ revision = RevFixFen
    /\ IdleAgg /\ IdleChunks /\ IdleMeta /\ IdleFilter /\ IdleFixFen /\ IdlePool /\ IdleRecord /\ IdleMain
    /\ InitCompare
NextOrder ==
    \/ Compare /\ UNCHANGED <<revision, aggVars, chunkVars, metaVars, filterVars, fixfenVars, poolVars, recordVars, mainVars>>
SpecCompare == InitOrder /\ [][NextOrder]_vars


\* ------------------------------------------------- claims on the aggregation
KeysOf(b) == {e[1] : e \in BagToSet(b)}

RECURSIVE SumTotals(_)
SumTotals(m) ==
    IF DOMAIN m = {} THEN 0
    ELSE LET k == CHOOSE x \in DOMAIN m : TRUE
         IN total(m[k]) + SumTotals([x \in DOMAIN m \ {k} |-> m[x]])

\* what a key's entry shows, an absent key showing nothing
Shown(k) == IF k \in DOMAIN occurance_map THEN occurance_map[k] ELSE NoStatistics

\* C1: no lost updates: once every worker has joined, each key's wins, draws and
\* losses are the numbers of upserts done for that key with a Win, a Draw and a
\* Loss, whatever the interleaving of the workers was.
C1_NoLostUpdates ==
    Joined =>
        \A k \in DOMAIN occurance_map \cup KeysOf(events) :
            /\ Shown(k).wins = CopiesIn(<<k, WIN>>, events)
            /\ Shown(k).draws = CopiesIn(<<k, DRAW>>, events)
            /\ Shown(k).losses = CopiesIn(<<k, LOSS>>, events)

\* two workers have upserted the same key and have joined
C1_Witness ==
    /\ Joined
    /\ \E k \in DOMAIN occurance_map : total(occurance_map[k]) >= 2

\* the orders in which the upserts of a bag can be done
Orders(b) ==
    {s \in [1..BagCardinality(b) -> BagToSet(b)] :
        \A e \in BagToSet(b) : Cardinality({i \in DOMAIN s : s[i] = e}) = CopiesIn(e, b)}

RECURSIVE UpsertAll(_, _)
UpsertAll(m, s) ==
    IF Len(s) = 0 THEN m
    ELSE UpsertAll(Upsert(m, s[1][1], s[1][2]), Tail(s))

\* C2: aggregation commutativity: once every worker has joined, the table is the
\* one that upserting the same events one after another gives in every order of
\* them, so its keys and counters depend on the multiset of events alone.
C2_Commutativity ==
    Joined => \A s \in Orders(events) : UpsertAll(<<>>, s) = occurance_map

\* two different events were upserted, so that their order could matter
C2_Witness ==
    /\ Joined
    /\ Cardinality(BagToSet(events)) >= 2
    /\ \E k \in DOMAIN occurance_map : total(occurance_map[k]) >= 2

\* C3: every entry of the table counts at least one game: no entry with an
\* all-zero triple is ever present.
C3_NoZeroEntry ==
    \A k \in DOMAIN occurance_map : total(occurance_map[k]) >= 1

\* C4: a game with a disqualifying Termination header is never aggregated: it
\* changes no counter, creates no key and does not increment total_games.
C4_TerminationExcluded ==
    \A w \in Workers : analyzer[w].seen.Termination = "disq" => ~analyzer[w].acted

\* C5: a game whose headers are complete without an informative Result header
\* has changed no counter, created no entry and not incremented total_games.
C5_UnknownExcluded ==
    \A w \in Workers :
        (analyzer[w].pc = "moves" /\ analyzer[w].seen.Result \notin {"1-0", "0-1", "1/2-1/2"})
            => ~analyzer[w].acted

Counting == {w \in Workers : analyzer[w].pc = "count"}

C6_Invariant ==
    HasTotalGames(revision) =>
        /\ total_games <= SumTotals(occurance_map)
        /\ total_games + Cardinality(Counting) = BagCardinality(events)
        /\ Joined => total_games = BagCardinality(events)

\* C6: total_games never decreases, trails the table (it is at most the sum of
\* wins+draws+losses over the entries, each upserted game being counted once and
\* after its upsert) and equals the number of upserted games once every worker
\* has joined.
C6_TotalGames == [](C6_Invariant) /\ [][total_games' >= total_games]_vars

\* a run has joined with games counted
C6_Witness == Joined /\ HasTotalGames(revision) /\ total_games >= 2

\* ---------------------------------------------------- claims on split_chunks
RECURSIVE Flatten(_)
Flatten(groups) == IF Len(groups) = 0 THEN <<>> ELSE Head(groups) \o Flatten(Tail(groups))

\* ceil(a / b) for a >= 0 and b > 0
Ceil(a, b) == CHOOSE q \in 0..a : q * b >= a /\ (q = 0 \/ (q - 1) * b < a)

\* C7: chunk coverage: the groups split_chunks returns, put one after another,
\* are the input list in its order, and no group has more than
\* ceil(n / target_chunks) files.
C7_ChunkCoverage ==
    split_pc = "returned" =>
        /\ Flatten(chunks) = pgns
        /\ \A i \in 1..Len(chunks) : Len(chunks[i]) <= Ceil(Len(pgns), target_chunks)

\* a list was split into several groups, the last one shorter
C7_Witness ==
    /\ split_pc = "returned"
    /\ Len(chunks) >= 2
    /\ Len(chunks[Len(chunks)]) < Len(chunks[1])

\* C8: with chunk_size = ceil(n / target_chunks), split_chunks returns
\* ceil(n / chunk_size) groups, each but the last of chunk_size files, none
\* empty, and no group at all for an empty list.
C8_ChunkShape ==
    split_pc = "returned" =>
        LET n == Len(pgns)
            chunk_size == Ceil(n, target_chunks)
        IN /\ n = 0 => chunks = <<>>
           /\ n > 0 => Len(chunks) = Ceil(n, chunk_size)
           /\ \A i \in 1..Len(chunks) - 1 : Len(chunks[i]) = chunk_size
           /\ \A i \in 1..Len(chunks) : Len(chunks[i]) >= 1

\* four files and a target of three give two groups of two
C8_Witness ==
    /\ split_pc = "returned"
    /\ Len(pgns) = 4
    /\ target_chunks = 3
    /\ Len(chunks) = 2

\* ---------------------------------------------------- claims on get_metadata
IdOf(i) == TestId(file_list[i])
StemOf(i) == TestFilename(file_list[i])
\* the stem recorded for the test identifier of file i
FirstStem(i) == StemOf(MinOf({j \in 1..i : IdOf(j) = IdOf(i)}))
Offending(i) == StemOf(i) # FirstStem(i)
\* the files the scan has looked at
Examined == IF meta_pc = "exit" THEN 1..(scanned + 1) ELSE 1..scanned
Raisers(stem) == {r \in 1..Len(raised) : raised[r][2] = stem}

C10_LoadedOncePerStem ==
    /\ \A stem \in BagToSet(loads) : CopiesIn(stem, loads) = 1
    /\ DOMAIN meta_map = BagToSet(loads)
    /\ \A stem \in DOMAIN meta_map : meta_map[stem] = json_files[stem]
    /\ \A i \in 1..scanned : StemOf(i) \in DOMAIN meta_map <=> StemOf(i) \in DOMAIN json_files

\* duplicates allowed: two stems of one test identifier are both cached, one of
\* them mapped to by two files
C10_Witness ==
    /\ allow_duplicates
    /\ meta_pc = "returned"
    /\ \E i, j, k \in 1..scanned :
          /\ i < j /\ StemOf(i) = StemOf(j)
          /\ IdOf(k) = IdOf(i) /\ StemOf(k) # StemOf(i)
          /\ {StemOf(i), StemOf(k)} \subseteq DOMAIN meta_map

\* ---------------------------------------------------- claims on the filters
Elems(list) == {list[i] : i \in 1..Len(list)}
\* the files found whose test has metadata with a book identifier
WithBook ==
    {f \in Elems(files_found) :
        TestFilename(f) \in DOMAIN filter_meta /\ filter_meta[TestFilename(f)].book # "nullopt"}
BookOf(f) == filter_meta[TestFilename(f)].book
Matches(f) == BookOf(f) \in RegexLanguage[match_book]
BookFiltered == filter_pc = "sprt" /\ match_book # NoMatchBook

\* C11: book filter polarity: a file whose metadata has a book identifier is kept by
\* filter_files_book in non-inverted mode iff the identifier matches the pattern and in
\* inverted mode iff it does not match, so that for such files the results of the two
\* modes are complements of each other.
C11_BookPolarity ==
    BookFiltered =>
        /\ \A f \in WithBook :
              f \in Elems(files_pgn) <=> (IF matchBookInverted THEN ~Matches(f) ELSE Matches(f))
        /\ \A f \in WithBook :
              f \in Elems(filter_files_book(files_found, filter_meta, match_book, TRUE))
                 <=> f \notin Elems(filter_files_book(files_found, filter_meta, match_book, FALSE))

\* a non-inverted filter has kept one file with a book identifier and removed another
C11_Witness ==
    /\ BookFiltered
    /\ ~matchBookInverted
    /\ \E f, g \in WithBook : f \in Elems(files_pgn) /\ g \notin Elems(files_pgn)

\* C12: a file with no loaded metadata, or whose metadata has no book field, is removed
\* by filter_files_book in either mode, and once a book pattern is configured it is in
\* no chunk handed to the workers.
C12_MissingBookDropped ==
    (match_book # NoMatchBook /\ filter_pc \in {"sprt", "split", "enqueued"}) =>
        \A f \in Elems(files_found) \ WithBook :
            /\ f \notin Elems(files_pgn)
            /\ f \notin Elems(Flatten(files_chunked))

\* an inverted filter has removed a file without metadata and one with metadata but
\* no book field, and the chunks are enqueued with some file in them
C12_Witness ==
    /\ filter_pc = "enqueued"
    /\ match_book # NoMatchBook
    /\ matchBookInverted
    /\ files_chunked # <<>>
    /\ \E f, g \in Elems(files_found) \ WithBook :
          /\ TestFilename(f) \notin DOMAIN filter_meta
          /\ TestFilename(g) \in DOMAIN filter_meta

\* the files filter_files_sprt has to keep
SprtTrue(f) ==
    TestFilename(f) \in DOMAIN filter_meta /\ filter_meta[TestFilename(f)].sprt = "true"
IndexIn(list, f) == CHOOSE i \in 1..Len(list) : list[i] = f

\* C13: SPRT-only filter: filter_files_sprt keeps a file iff metadata is loaded for its
\* stem and has the SPRT flag present and true, drops every other file, and leaves the
\* kept files in the order they had.
C13_SprtFilter ==
    [][(filter_pc = "sprt" /\ only_sprt) =>
          /\ Elems(files_pgn') = {f \in Elems(files_pgn) : SprtTrue(f)}
          /\ Len(files_pgn') = Cardinality(Elems(files_pgn'))
          /\ \A f, g \in Elems(files_pgn') :
                IndexIn(files_pgn', f) < IndexIn(files_pgn', g)
                   <=> IndexIn(files_pgn, f) < IndexIn(files_pgn, g)]_vars

\* the SPRT-only filter alone has kept two files and removed, from between them, one
\* whose metadata has no flag
C13_Witness ==
    /\ filter_pc = "split"
    /\ only_sprt
    /\ match_book = NoMatchBook
    /\ Len(files_pgn) = 2
    /\ Len(files_found) = 3
    /\ files_found[2] \notin Elems(files_pgn)
    /\ TestFilename(files_found[2]) \in DOMAIN filter_meta
    /\ filter_meta[TestFilename(files_found[2])].sprt = "nullopt"

\* ------------------------------------------------------- claims on fixFen
\* the position string ends in " 0 1"
EndsInSentinel(str) == Len(str) >= 3 /\ SubSeq(str, Len(str) - 1, Len(str)) = <<"0", "1">>

\* C14: fixFen returns its input unchanged whenever no correction table is configured
\* or the position string does not end in the sentinel " 0 1"; the key of the upsert is
\* then the game's position string and no std::exit happens.
C14_FixFenIdentity ==
    revision = RevFixFen =>
        /\ \A f \in FenValues \cup {STARTPOS, <<"0", "1">>} :
              (fixfens = NoFixFens \/ ~EndsInSentinel(f)) => fixFen(f) = f
        /\ \A w \in Workers :
              (fixfens = NoFixFens \/ ~EndsInSentinel(analyzer[w].fen)) =>
                  /\ analyzer[w].pc # "exit"
                  /\ analyzer[w].pc \in {"emplace", "locked"} =>
                        analyzer[w].key = analyzer[w].fen

\* with a table configured, a worker is about to upsert a position that does not end
\* in the sentinel under the position string itself
C14_Witness ==
    /\ revision = RevFixFen
    /\ fixfens # NoFixFens
    /\ \E w \in Workers :
          /\ analyzer[w].pc = "emplace"
          /\ analyzer[w].fen = FenB
          /\ analyzer[w].key = FenB

\* the decimal numeral of a counter, and the position string without its two counters
Decimal(n) == CHOOSE t \in DOMAIN IntFields : IntFields[t] = n
Prefix(str) == SubSeq(str, 1, Len(str) - 2)
Corrected ==
    fixfen_pc = "fixed" /\ EndsInSentinel(game_fen) /\ Prefix(game_fen) \in DOMAIN fixfens
Substituted ==
    fixed_value = Prefix(game_fen) \o <<Decimal(fixfens[Prefix(game_fen)][1]),
                                        Decimal(fixfens[Prefix(game_fen)][2])>>

\* C15 as stated: for a position string ending in the sentinel " 0 1" whose prefix has
\* an entry (h, f) in the table, fixFen yields prefix + " h f", and the resulting key
\* never carries the sentinel values "0 1", for every table get_fixfen can build.
C15_NeverSentinel == Corrected => (Substituted /\ ~EndsInSentinel(fixed_value))

\* C15 amended: fixFen yields prefix + " h f" with the table's values, and the key
\* carries the sentinel values exactly when the table's entry is (0, 1), which
\* get_fixfen stores for a record whose counters are 0 and 1.
C15_Substitution ==
    Corrected =>
        /\ Substituted
        /\ EndsInSentinel(fixed_value) <=> fixfens[Prefix(game_fen)] = <<0, 1>>

\* a table read from a file has given a position with the sentinel its counters back
C15_Witness ==
    /\ Corrected
    /\ game_fen = FenA
    /\ fixfens[Prefix(FenA)] = <<12, 7>>
    /\ fixed_value = <<"A", "w", "-", "-", "12", "7">>

\* ---------------------------------------------------- claims on get_fixfen
\* the records read so far that get_fixfen did not ignore, and their parts
Counted ==
    {i \in 1..line_no :
        /\ Len(lines[i]) >= 6
        /\ {lines[i][5], lines[i][6]} \subseteq DOMAIN IntFields
        /\ IntFields[lines[i][6]] # 0}
PrefixOf(i) == SubSeq(lines[i], 1, 4)
PairOf(i) == <<IntFields[lines[i][5]], IntFields[lines[i][6]]>>
ZeroOrAbsent(line) == Len(line) < 6 \/ line[6] = "0"
TableAsClaimed ==
    /\ DOMAIN fixfen_map = {PrefixOf(i) : i \in Counted}
    /\ \A key \in DOMAIN fixfen_map :
          \E i \in Counted :
              /\ PrefixOf(i) = key
              /\ fixfen_map[key] = PairOf(i)
              /\ \A j \in Counted : PrefixOf(j) = key => PairOf(i)[2] <= PairOf(j)[2]

\* C17: after any sequence of records, each prefix maps to the (halfmove, fullmove)
\* pair of a record with the lowest fullmove among the records of that prefix that
\* were not ignored, whatever their order; a record whose fullmove is zero or absent
\* is ignored and neither creates nor replaces an entry; the table returned is the
\* one built.
C17_LowestFullmove ==
    /\ [](TableAsClaimed /\ (fixfen_pc \in {"returned", "fixed", "exit"} => fixfens = fixfen_map))
    /\ [][(fixfen_pc = "scan" /\ line_no < Len(lines) /\ ZeroOrAbsent(lines[line_no + 1]))
             => fixfen_map' = fixfen_map]_vars

\* a later record with a lower fullmove has replaced the entry of an earlier one, and
\* the record with fullmove zero between them left it alone
C17_Witness ==
    /\ fixfen_pc = "returned"
    /\ lines = <<RecA37, RecA30, RecA01>>
    /\ fixfens = (PrefixOf(1) :> <<0, 1>>)

\* ------------------------------------------- claims on the missing table entry
\* worker w has read the headers of an aggregatable game whose position ends in the
\* sentinel and whose prefix the configured table does not have
MissingEntry(w) ==
    /\ revision = RevFixFen
    /\ fixfens # NoFixFens
    /\ analyzer[w].pc = "headers"
    /\ analyzer[w].result # UNKNOWN
    /\ analyzer[w].valid_game
    /\ EndsInSentinel(analyzer[w].fen)
    /\ Prefix(analyzer[w].fen) \notin DOMAIN fixfens
\* the headers-complete step of w
HeadersComplete(w) == analyzer[w].pc = "headers" /\ analyzer'[w].pc # "headers"

AbortAndNoReport ==
    /\ [][\A w \in Workers :
             (MissingEntry(w) /\ HeadersComplete(w)) => (analyzer'[w].pc = "exit" /\ exited')]_vars
    /\ [][\A w \in Workers : analyzer[w].pc = "exit" => analyzer'[w] = analyzer[w]]_vars
    /\ [](\A w \in Workers : analyzer[w].pc = "exit" => (exited /\ ~analyzer[w].acted))
    /\ [][exited => exited']_vars
    /\ [](exited => ~report.written)
    /\ [][ended => occurance_map' = occurance_map]_vars

\* C16: when a table is configured and an aggregatable game's position ends in the
\* sentinel but its prefix is absent from the table, the run aborts: that game is not
\* upserted, no further upsert follows in the run, and the report is never written.
\* (AbortAndNoReport holds of every behaviour; the upserts the other workers do
\* between the call of std::exit(1) and the end of the process break the rest.)
C16_NoFurtherUpsert ==
    /\ AbortAndNoReport
    /\ [][exited => occurance_map' = occurance_map]_vars

\* ------------------------------------------------ claims on the report
TableRows == {<<key, occurance_map[key]>> : key \in DOMAIN occurance_map}

\* C18: join barrier: write_results takes its snapshot of the table only after every
\* chunk task has finished (pool.wait has returned), and after the snapshot the table
\* is never mutated again: no upsert interleaves with or follows write_results.
C18_JoinBarrier ==
    /\ [][(~report.written /\ report'.written) =>
             /\ Joined
             /\ \A w \in Workers : analyzer[w].pc \notin {"emplace", "locked", "count"}
             /\ Elems(report'.rows) \subseteq TableRows
             /\ ~report'.conclusive => Elems(report'.rows) = TableRows]_vars
    /\ [][report.written => (occurance_map' = occurance_map /\ report' = report)]_vars
    /\ [](report.written => Joined)

\* the report of a table with two entries is written
C18_Witness ==
    /\ report.written
    /\ Len(report.rows) = 2
    /\ Cardinality(DOMAIN occurance_map) = 2

\* draws(a)/total(a) compared with draws(b)/total(b), for totals of at least 1
RateAtLeast(a, b) == a.draws * total(b) >= b.draws * total(a)
RateEqual(a, b) == a.draws * total(b) = b.draws * total(a)

\* C19: in the report rows are sorted descending by draw rate: for any two emitted
\* rows a before b, draws(a)/total(a) >= draws(b)/total(b).
C19_DescendingDrawRate ==
    (report.written /\ revision # RevInitial) =>
        \A i, j \in 1..Len(report.rows) :
            i < j => RateAtLeast(report.rows[i][2], report.rows[j][2])

\* a has to come before b by the tie-break chain: higher total, then higher wins,
\* then higher draws, then higher losses
TieBreakFirst(a, b) ==
    \/ total(a) > total(b)
    \/ total(a) = total(b) /\ a.wins > b.wins
    \/ total(a) = total(b) /\ a.wins = b.wins /\ a.draws > b.draws
    \/ total(a) = total(b) /\ a.wins = b.wins /\ a.draws = b.draws /\ a.losses > b.losses
\* lt is a < b and gt is b < a for operator<
ChainHolds(a, b, lt, gt) ==
    RateEqual(a, b) => /\ TieBreakFirst(a, b) => (lt /\ ~gt)
                       /\ TieBreakFirst(b, a) => (gt /\ ~lt)

\* C20: among entries with equal draw rate the one with the higher total comes first,
\* then the higher win count, then the higher draw count, then the higher loss count;
\* Statistics::operator< is a strict weak ordering (irreflexive, asymmetric,
\* transitive, with transitive incomparability) over the triples with total >= 1.
C20_TieBreakChain ==
    cmp_pc = "compared" =>
        /\ ChainHolds(stats_a, stats_b, compared.ab, compared.ba)
        /\ ChainHolds(stats_b, stats_c, compared.bc, compared.cb)
        /\ ChainHolds(stats_a, stats_c, compared.ac, compared.ca)
        /\ \A i, j \in 1..Len(sorted_rows) :
              (i < j /\ RateEqual(sorted_rows[i][2], sorted_rows[j][2])) =>
                  ~TieBreakFirst(sorted_rows[j][2], sorted_rows[i][2])
        /\ ~compared.aa
        /\ ~(compared.ab /\ compared.ba)
        /\ ~(compared.bc /\ compared.cb)
        /\ ~(compared.ac /\ compared.ca)
        /\ (compared.ab /\ compared.bc) => compared.ac
        /\ (compared.cb /\ compared.ba) => compared.ca
        /\ (~compared.ab /\ ~compared.ba /\ ~compared.bc /\ ~compared.cb)
              => (~compared.ac /\ ~compared.ca)

\* three values of one draw rate: a and c have the higher total, a more wins than c,
\* and the sort has put them a, c, b
C20_Witness ==
    /\ cmp_pc = "compared"
    /\ RateEqual(stats_a, stats_b) /\ RateEqual(stats_a, stats_c)
    /\ total(stats_a) = total(stats_c) /\ total(stats_a) > total(stats_b)
    /\ stats_a.wins > stats_c.wins
    /\ compared.ab /\ compared.ac /\ compared.cb
    /\ sorted_rows = << <<"a", stats_a>>, <<"c", stats_c>>, <<"b", stats_b>> >>

\* C21: deterministic report order: for a fixed input the sequence of emitted rows is
\* the same for every thread schedule and table insertion order, also when two
\* different position keys have identical counter triples: the rows written are the
\* only rows write_results can write for the table.
C21_DeterministicOrder ==
    (report.written /\ revision # RevInitial) =>
        \A other \in write_results(report.conclusive) : other.rows = report.rows

\* exactly one of the three counters is nonzero, and it is the total
ExactlyOne(stats) ==
    \E f \in {"wins", "draws", "losses"} :
        /\ stats[f] # 0
        /\ stats[f] = total(stats)
        /\ \A g \in {"wins", "draws", "losses"} \ {f} : stats[g] = 0

\* C22: conclusive-only filter: with conclusive mode set an entry of the table is
\* emitted iff exactly one of its three counters is nonzero and equals the total; with
\* conclusive mode unset every entry is emitted; no entry is emitted twice.
C22_ConclusiveFilter ==
    report.written =>
        /\ Len(report.rows) = Cardinality(Elems(report.rows))
        /\ Elems(report.rows) =
              IF report.conclusive THEN {row \in TableRows : ExactlyOne(row[2])}
              ELSE TableRows

\* a conclusive report of a table of two entries has kept one and left one out
C22_Witness ==
    /\ report.written
    /\ report.conclusive
    /\ Cardinality(DOMAIN occurance_map) = 2
    /\ Len(report.rows) = 1


\* the records of a file that parser.readGames delivers: those before its first error
RECURSIVE BeforeError(_)
BeforeError(content) ==
    IF content = <<>> \/ Head(content) = ParseError THEN <<>>
    ELSE <<Head(content)>> \o BeforeError(Tail(content))

\* how many delivered records of file f are games under key with the outcome result
Delivered(f, key, result) ==
    Cardinality({i \in 1..Len(BeforeError(file_system[f])) :
                    BeforeError(file_system[f])[i] = <<key, result>>})

RECURSIVE DeliveredBy(_, _, _)
DeliveredBy(fs, key, result) ==
    IF fs = {} THEN 0
    ELSE LET f == CHOOSE x \in fs : TRUE
         IN Delivered(f, key, result) + DeliveredBy(fs \ {f}, key, result)

\* the table made of each file's own delivered records, every file taken by itself
TableOfFiles(fs) ==
    LET count(key) == Statistics(DeliveredBy(fs, key, WIN), DeliveredBy(fs, key, DRAW),
                                 DeliveredBy(fs, key, LOSS))
    IN [key \in {k \in FenValues \cup {STARTPOS} : total(count(k)) > 0} |-> count(key)]

PoolDrained ==
    /\ tasks # <<>>
    /\ queue = <<>>
    /\ \A w \in DOMAIN task_of : task_of[w] = NoTask

HasError(f) == \E i \in 1..Len(file_system[f]) : file_system[f][i] = ParseError

\* C23: per-file error isolation: a parse error is caught at the file boundary and
\* never ends the task; the games of the failing file delivered before the error
\* stay counted, the remaining files of the chunk and all other chunks are still
\* processed, and every file contributes what it contributes by itself, so the
\* other files' contributions are those of a run without the failing file.
C23_ErrorIsolation ==
    PoolDrained =>
        /\ occurance_map = TableOfFiles(DOMAIN file_system)
        /\ total_games = SumTotals(TableOfFiles(DOMAIN file_system))
        /\ finished = started
        /\ {e[1] : e \in BagToSet(finished)} = 1..Len(tasks)
        /\ \A f \in DOMAIN file_system :
              HasError(f) =>
                 SumTotals(occurance_map) =
                    SumTotals(TableOfFiles({f}))
                    + SumTotals(TableOfFiles(DOMAIN file_system \ {f}))
C23_Witness ==
    /\ PoolDrained
    /\ \E t \in 1..Len(tasks) :
          /\ Len(tasks[t]) = 2
          /\ HasError(tasks[t][1])
          /\ ~HasError(tasks[t][2])
    /\ FenB \in DOMAIN occurance_map
    /\ STARTPOS \in DOMAIN occurance_map


\* how many times task t is in a history
TimesIn(history, t) ==
    BagCardinality([e \in {x \in BagToSet(history) : x[1] = t} |-> history[e]])
AtMostOnce(history) == \A t \in 1..Len(tasks) : TimesIn(history, t) <= 1

\* C26: chunk scheduling: every chunk is run once, to completion, by one worker;
\* total_chunks is incremented once per chunk and never exceeds the number of
\* chunks; under fair scheduling and with no fatal error, eventually total_chunks
\* is the number of chunks and the report is written.
C26_ChunkScheduling ==
    /\ [](/\ AtMostOnce(started)
          /\ finished \sqsubseteq started
          /\ total_chunks = BagCardinality(finished)
          /\ total_chunks <= Len(tasks)
          /\ \A w \in Workers :
                task_of[w].task # 0 =>
                    /\ BagIn(<<task_of[w].task, w>>, started)
                    /\ TimesIn(finished, task_of[w].task) = 0
          /\ report.written => total_chunks = Len(tasks))
    /\ <>(report.written /\ total_chunks = Len(tasks))
C26_Witness ==
    /\ report.written
    /\ total_chunks = Len(tasks)
    /\ Len(tasks) = 3
    /\ \E e, f \in BagToSet(finished) : e[2] # f[2]


\* C29: split_chunks never returns more groups than target_chunks, nor more than
\* there are files, at any point of its loop; with the target 4 * concurrency of
\* process, the chunk queue so never holds more than 4 tasks per worker.
C29_ChunkCountBound ==
    /\ Len(chunks) <= target_chunks
    /\ Len(chunks) <= Len(pgns)
    /\ \A c \in 1..concurrency : target_chunks = 4 * c => Len(chunks) <= 4 * c
C29_Witness ==
    /\ split_pc = "returned"
    /\ Len(pgns) > target_chunks
    /\ Len(chunks) = target_chunks
    /\ target_chunks > 1


\* the sum of the three summary counters of the report
SummarySum == report.wins + report.draws + report.losses

\* C28: conservation in the report: in the revisions that count total_games, a
\* report written with conclusive-only mode off has wins + draws + losses, summed
\* over the emitted rows, equal to total_games; with the mode on the sum is at
\* most total_games. (A run with a fatal error writes no report.)
C28_Conservation ==
    (report.written /\ HasTotalGames(revision)) =>
        /\ report.wins = SumOf(report.rows, "wins")
        /\ report.draws = SumOf(report.rows, "draws")
        /\ report.losses = SumOf(report.rows, "losses")
        /\ report.total_games = total_games
        /\ ~report.conclusive => SummarySum = total_games
        /\ report.conclusive => SummarySum <= total_games
C28_Witness ==
    /\ report.written
    /\ revision = RevFixFen
    /\ ~report.conclusive
    /\ Len(report.rows) = 2
    /\ SummarySum = 2
    /\ total_games = 2


Decisive == {"1-0", "0-1", "1/2-1/2"}

\* C25: per-game reset: while the headers of a record arrive, the analyzer holds
\* nothing of the previous record: the outcome is Unknown until a Result header,
\* the game is valid until a disqualifying Termination header, and the position is
\* the default starting position until a FEN header; so a decisive, valid game
\* without a FEN header is aggregated, under the default starting position.
C25_PerGameReset ==
    \A w \in Workers :
        /\ analyzer[w].pc = "headers" =>
              /\ analyzer[w].seen.Result = "none" => analyzer[w].result = UNKNOWN
              /\ analyzer[w].seen.Termination # "disq" => analyzer[w].valid_game
              /\ (HasStartMoves(revision) /\ ~analyzer[w].seen.FEN) => analyzer[w].fen = STARTPOS
        /\ analyzer[w].pc = "emplace" /\ ~analyzer[w].seen.FEN => analyzer[w].key = STARTPOS
        /\ (/\ analyzer[w].pc = "moves"
            /\ analyzer[w].seen.Result \in Decisive
            /\ analyzer[w].seen.Termination # "disq"
            /\ ~analyzer[w].seen.FEN) => analyzer[w].acted


\* the orders the headers of a record can arrive in
HeaderOrders(record) == {p \in [1..Len(record) -> Elems(record)] : Elems(p) = Elems(record)}

\* the Analyzer after the headers of a record in the order p, and after the
\* headers-complete call, as the tokenizer drives it
RECURSIVE DeliverAll(_, _)
DeliverAll(a, p) ==
    IF p = <<>> \/ a.skip \/ a.pc # "headers" THEN a
    ELSE DeliverAll(header(a, Head(p)[1], Head(p)[2]), Tail(p))
AfterHeaders(p) ==
    LET a == DeliverAll([startPgn(FreshAnalyzer) EXCEPT !.pc = "headers"], p)
    IN IF a.pc = "headers" THEN startMoves(a) ELSE a

\* C27: header-order independence: a record of at most one Result, one FEN and one
\* Termination header is aggregated the same way (same key, same counter, or not
\* at all) in whatever order its headers arrive; a FEN header before the Result
\* header neither drops the game nor counts it under an Unknown outcome.
C27_HeaderOrderIndependence ==
    (next_header > 0 /\ visitor.pc # "headers") =>
        \A p \in HeaderOrders(pgn_record) : Aggregated(AfterHeaders(p)) = Aggregated(visitor)


\* the three fatal conditions, as the input has them
EmptyPattern == has(argv, "--matchBook") /\ get(argv, "--matchBook") = ""
DuplicateConflict ==
    \E i, j \in 1..Len(file_list) :
        /\ TestId(file_list[i]) = TestId(file_list[j])
        /\ TestFilename(file_list[i]) # TestFilename(file_list[j])
DuplicatesDisallowed == ~has(argv, "--allowDuplicates")
MissingEntryIn(f) ==
    \E i \in 1..Len(BeforeError(file_system[f])) :
        LET game == BeforeError(file_system[f])[i]
        IN game[2] # UNKNOWN /\ fixFen(game[1]) = ExitKey
Terminated == main_pc \in {"returned", "exited"}

\* C24: fatal errors and exit status: an empty --matchBook, a duplicate test
\* conflict with duplicates disallowed and a missing correction-table entry each
\* end the run with a non-zero status and without a report; the duplicate abort
\* comes before any task is started and before any upsert; nothing else ends the
\* run with a non-zero status: a run without one of the three, parse errors and
\* left-out games included, ends with status 0 after the report is written.
C24_FatalErrors ==
    /\ exit_status \in {<<>>, <<0>>, <<1>>}
    /\ Terminated <=> exit_status # <<>>
    /\ exit_status = <<1>> => ~report.written
    /\ exit_status = <<0>> => report.written
    /\ EmptyPattern => (Terminated => exit_status = <<1>>) /\ ~report.written
    /\ (DuplicateConflict /\ DuplicatesDisallowed) =>
          (Terminated => exit_status = <<1>>) /\ ~report.written
    /\ exited => (Terminated => exit_status = <<1>>) /\ ~report.written
    /\ meta_pc = "exit" =>
          /\ DuplicateConflict /\ DuplicatesDisallowed
          /\ tasks = <<>> /\ started = EmptyBag
          /\ occurance_map = <<>> /\ total_games = 0
    /\ exited => \E t \in 1..Len(tasks) : \E k \in 1..Len(tasks[t]) : MissingEntryIn(tasks[t][k])
    /\ exit_status = <<1>> =>
          \/ EmptyPattern
          \/ DuplicateConflict /\ DuplicatesDisallowed
          \/ exited
    /\ (/\ Terminated
        /\ ~EmptyPattern
        /\ ~(DuplicateConflict /\ DuplicatesDisallowed)
        /\ \A t \in 1..Len(tasks) : \A k \in 1..Len(tasks[t]) : ~MissingEntryIn(tasks[t][k]))
          => exit_status = <<0>>
C24_Witness ==
    /\ main_pc = "exited"
    /\ meta_pc = "exit"
    /\ exit_status = <<1>>
    /\ Len(file_list) = 3
    /\ scanned = 2
    /\ ~report.written

====
